---- MODULE Spec2Model ----
(***************************************************************************)
(* Nova Physics: the nvSpace container (space.c), the brute-force          *)
(* broad-phase (broadphase.c), the narrow-phase (narrowphase.c) and the    *)
(* shape constructors (shape.c).                                           *)
(*                                                                         *)
(* Lengths are integers on a grid, angles are counted in quarter turns,    *)
(* so that nvVector2_rotate is exact.  Every shape is the rectangle of     *)
(* nvRectShape_new(2, 2, offset).  Dynamic bodies have mass 1 and inertia  *)
(* 0 (a body that cannot rotate under impulses), materials have            *)
(* restitution 0 and friction 0, settings.baumgarte and the damping        *)
(* settings are 0, so the contact solver has integer arithmetic.           *)
(***************************************************************************)
EXTENDS Integers, Sequences, FiniteSets, TLC

(***************************************************************************)
(* Bounds of the model                                                     *)
(***************************************************************************)
NumBodies == 2          \* rigid bodies on the heap
NumConstraints == 1     \* constraints on the heap
MaxCoord == 4           \* step() is only called while |coordinate| <= MaxCoord
MaxSpeed == 2           \* ... and |velocity component| <= MaxSpeed
MaxSubsteps == 2        \* settings.substeps ranges over 0..MaxSubsteps
MaxConstraintEntries == 2   \* length of space->constraints
MaxDt == 1              \* step(dt) is called with dt / substeps in 0..MaxDt

NV_POLYGON_MAX_VERTICES == 16

Bodies == 1..NumBodies
Constraints == 1..NumConstraints

NULL == "NULL"
SELF == "space"         \* the address of the one nvSpace

STATIC == "nvRigidBodyType_STATIC"
DYNAMIC == "nvRigidBodyType_DYNAMIC"
POLYGON == "nvShapeType_POLYGON"
CIRCLE == "nvShapeType_CIRCLE"
BRUTE_FORCE == "nvBroadPhaseAlg_BRUTE_FORCE"
SHG == "nvBroadPhaseAlg_SHG"
BVH == "nvBroadPhaseAlg_BVH"

VARIABLES
    shape_id_counter,   \* shape.c: static nv_uint32 id_counter
    shapes,             \* heap of shapes, in allocation order
    body,               \* heap of rigid bodies
    cons,               \* heap of constraints
    bodies,             \* space->bodies
    constraints,        \* space->constraints
    broadphase_pairs,   \* space->broadphase_pairs
    contacts,           \* space->contacts, keyed by <<shape_a.id, shape_b.id>>
    id_counter,         \* space->id_counter
    gravity,            \* space->gravity
    settings,           \* space->settings
    listener,           \* space->listener
    broadphase_algorithm, \* space->broadphase_algorithm
    kill_bounds,        \* space->kill_bounds
    use_kill_bounds,    \* space->use_kill_bounds
    freed,              \* the bodies and constraints that were freed
    error,              \* the message of the last nv_set_error
    step,               \* position of nvSpace_step and its locals
    solver_log,         \* solver calls made by the current substep, in order
    events,             \* listener callbacks invoked by the current step
    last_call,          \* the last API call and what it returned
    pairs,              \* nv_Space.pairs of the multithreaded broad-phase
    res,                \* nv_Space.res, the resolutions
    pair_mutex,         \* the worker that holds pair_mutex, or Unlocked
    threads,            \* the worker threads of nv_BroadPhase_SHG_multithreaded
    midphase_calls      \* the nv_midphase calls of the workers that are running

\* the state of the multithreaded spatial hash grid broad-phase
shg_vars == <<pairs, res, pair_mutex, threads, midphase_calls>>

vars == <<shape_id_counter, shapes, body, cons, bodies, constraints,
          broadphase_pairs, contacts, id_counter, gravity, settings, listener,
          broadphase_algorithm, kill_bounds, use_kill_bounds, freed, error,
          step, solver_log, events, last_call, shg_vars>>

(***************************************************************************)
(* Math primitives                                                         *)
(***************************************************************************)
nvVector2_add(a, b) == <<a[1] + b[1], a[2] + b[2]>>

nvVector2_sub(a, b) == <<a[1] - b[1], a[2] - b[2]>>

nvVector2_mul(v, k) == <<v[1] * k, v[2] * k>>

nvVector2_dot(a, b) == a[1] * b[1] + a[2] * b[2]

nvVector2_zero == <<0, 0>>

\* rotation by `angle` quarter turns
RECURSIVE nvVector2_rotate(_, _)
nvVector2_rotate(v, angle) ==
    IF angle % 4 = 0 THEN v
    ELSE nvVector2_rotate(<<0 - v[2], v[1]>>, (angle % 4) - 1)

Abs(x) == IF x < 0 THEN 0 - x ELSE x

Sign(x) == IF x < 0 THEN 0 - 1 ELSE 1

\* C integer division, truncating toward zero
Quot(a, b) == Sign(a) * Sign(b) * (Abs(a) \div Abs(b))

SetMin(S) == CHOOSE x \in S : \A y \in S : x <= y

SetMax(S) == CHOOSE x \in S : \A y \in S : x >= y

Range(s) == {s[i] : i \in 1..Len(s)}

RECURSIVE BitAnd(_, _)
BitAnd(a, b) ==
    IF a = 0 \/ b = 0 THEN 0
    ELSE (a % 2) * (b % 2) + 2 * BitAnd(a \div 2, b \div 2)

nv_collide_aabb_x_aabb(a, b) ==
    ~(a.max_x <= b.min_x \/ b.max_x <= a.min_x \/
      a.max_y <= b.min_y \/ b.max_y <= a.min_y)

(***************************************************************************)
(* core/array.c: nvArray                                                   *)
(***************************************************************************)
nvArray_add(array, elem) == [status |-> 0, array |-> Append(array, elem)]

Index(array, elem) ==
    IF elem \in Range(array)
    THEN SetMin({i \in 1..Len(array) : array[i] = elem})
    ELSE 0

\* removes the first occurrence; index 0 stands for (size_t)(-1)
nvArray_remove(array, elem) ==
    LET i == Index(array, elem) IN
    IF i = 0 THEN [index |-> 0, array |-> array]
    ELSE [index |-> i,
          array |-> SubSeq(array, 1, i - 1) \o SubSeq(array, i + 1, Len(array))]

(***************************************************************************)
(* shape.c                                                                 *)
(***************************************************************************)
BoxVertices == << <<0 - 1, 0 - 1>>, <<1, 0 - 1>>, <<1, 1>>, <<0 - 1, 1>> >>

\* NV_MEM_CHECK(shape): the result when NV_NEW returned NULL
FailedToAllocate ==
    [shape |-> NULL, id_counter |-> shape_id_counter, heap |-> shapes,
     error |-> "Failed to allocate memory."]

\* the constructor with the upper limit of the vertex count off by one
nvPolygonShape_new_exclusive(shape, vertices, num_vertices, offset) ==
    IF shape = NULL THEN FailedToAllocate
    ELSE IF num_vertices >= NV_POLYGON_MAX_VERTICES \/ num_vertices < 3
    THEN [shape |-> NULL, id_counter |-> shape_id_counter + 1, heap |-> shapes,
          error |-> "Exceeds maximum number of vertices per convex polygon shape."]
    ELSE [shape |-> shape, id_counter |-> shape_id_counter + 1,
          heap |-> Append(shapes,
                     [id |-> shape_id_counter, type |-> POLYGON,
                      num_vertices |-> num_vertices,
                      vertices |-> [i \in 1..num_vertices |->
                                       nvVector2_add(vertices[i], offset)]]),
          error |-> error]

\* `shape` is what NV_NEW(nvShape) returned.  The constructor takes its id
\* before it validates the vertex count.
nvPolygonShape_new(shape, vertices, num_vertices, offset) ==
    LET id == shape_id_counter
        counter == shape_id_counter + 1
    IN
    IF shape = NULL THEN FailedToAllocate
    ELSE IF num_vertices > NV_POLYGON_MAX_VERTICES
    THEN [shape |-> NULL, id_counter |-> counter, heap |-> shapes,
          error |-> "Exceeds maximum number of vertices per convex polygon shape."]
    ELSE IF num_vertices < 3
    THEN [shape |-> NULL, id_counter |-> counter, heap |-> shapes,
          error |-> "Cannot create a polygon shape with fewer than 3 vertices."]
    ELSE [shape |-> shape, id_counter |-> counter,
          heap |-> Append(shapes,
                     [id |-> id, type |-> POLYGON, num_vertices |-> num_vertices,
                      vertices |-> [i \in 1..num_vertices |->
                                       nvVector2_add(vertices[i], offset)]]),
          error |-> error]

nvRectShape_new(shape, width, height, offset) ==
    LET w == width \div 2
        h == height \div 2
    IN nvPolygonShape_new(shape,
            << <<0 - w, 0 - h>>, <<w, 0 - h>>, <<w, h>>, <<0 - w, h>> >>, 4, offset)

\* On the grid the arm is not rotated by 2 pi / n between two vertices: the
\* model keeps the number of the vertices, not their positions.
nvNGonShape_new(shape, n, radius, offset) ==
    IF n < 3
    THEN [shape |-> NULL, id_counter |-> shape_id_counter, heap |-> shapes,
          error |-> "Cannot create a polygon shape with fewer than 3 vertices."]
    ELSE IF n > NV_POLYGON_MAX_VERTICES
    THEN [shape |-> NULL, id_counter |-> shape_id_counter, heap |-> shapes,
          error |-> "Too many polygon vertices (check NV_POLYGON_MAX_VERTICES)."]
    ELSE nvPolygonShape_new(shape, [i \in 1..n |-> <<radius \div 2, 0>>], n, offset)

\* the hull is not computed: past the test of the size the function returns
\* NULL and does not call nv_set_error
nvConvexHullShape_new(points, offset) ==
    IF Len(points) < 3
    THEN [shape |-> NULL, id_counter |-> shape_id_counter, heap |-> shapes,
          error |-> "Cannot create a polygon shape with fewer than 3 vertices."]
    ELSE [shape |-> NULL, id_counter |-> shape_id_counter, heap |-> shapes,
          error |-> error]

nvCircleShape_new(shape, center, radius) ==
    IF shape = NULL THEN FailedToAllocate
    ELSE [shape |-> shape, id_counter |-> shape_id_counter + 1,
          heap |-> Append(shapes, [id |-> shape_id_counter, type |-> CIRCLE,
                                   center |-> center, radius |-> radius]),
          error |-> error]

nvPolygon_transform(shape, xform) ==
    [i \in 1..shape.num_vertices |->
        nvVector2_add(xform.position, nvVector2_rotate(shape.vertices[i], xform.angle))]

nvShape_get_aabb(shape, xform) ==
    IF shape.type = CIRCLE
    THEN [min_x |-> xform.position[1] - shape.radius,
          min_y |-> xform.position[2] - shape.radius,
          max_x |-> xform.position[1] + shape.radius,
          max_y |-> xform.position[2] + shape.radius]
    ELSE LET xvertices == nvPolygon_transform(shape, xform) IN
         [min_x |-> SetMin({xvertices[i][1] : i \in 1..shape.num_vertices}),
          min_y |-> SetMin({xvertices[i][2] : i \in 1..shape.num_vertices}),
          max_x |-> SetMax({xvertices[i][1] : i \in 1..shape.num_vertices}),
          max_y |-> SetMax({xvertices[i][2] : i \in 1..shape.num_vertices})]

(***************************************************************************)
(* body.c: nvRigidBody                                                     *)
(***************************************************************************)
nvRigidBody_new(type, position, angle, linear_velocity, angular_velocity) ==
    [space |-> NULL, id |-> 0, type |-> type, shapes |-> <<>>,
     position |-> position, angle |-> angle,
     linear_velocity |-> linear_velocity, angular_velocity |-> angular_velocity,
     force |-> nvVector2_zero, torque |-> 0,
     invmass |-> IF type = STATIC THEN 0 ELSE 1, invinertia |-> 0,
     com |-> nvVector2_zero, origin |-> position,
     collision_enabled |-> TRUE, collision_group |-> 0,
     collision_category |-> 3, collision_mask |-> 3,
     cache_aabb |-> FALSE, cache_transform |-> FALSE]

Xform(b) == [position |-> b.origin, angle |-> b.angle]

\* centroid of the shapes' vertices: the shapes are congruent rectangles
Centroid(shape_seq) ==
    LET pts == {<<s, i>> : s \in 1..Len(shape_seq), i \in 1..4}
        RECURSIVE Sum(_)
        Sum(S) == IF S = {} THEN nvVector2_zero
                  ELSE LET p == CHOOSE p \in S : TRUE IN
                       nvVector2_add(shapes[shape_seq[p[1]]].vertices[p[2]],
                                     Sum(S \ {p}))
        total == Sum(pts)
    IN <<Quot(total[1], 4 * Len(shape_seq)), Quot(total[2], 4 * Len(shape_seq))>>

nvRigidBody_add_shape(b, shape) ==
    LET shs == Append(b.shapes, shape)
        com == Centroid(shs)
    IN [b EXCEPT !.shapes = shs, !.com = com,
                 !.origin = nvVector2_sub(b.position, nvVector2_rotate(com, b.angle)),
                 !.cache_aabb = FALSE, !.cache_transform = FALSE]

nvRigidBody_set_position(b, new_position) ==
    [b EXCEPT !.position = new_position,
              !.origin = nvVector2_sub(new_position, nvVector2_rotate(b.com, b.angle)),
              !.cache_aabb = FALSE, !.cache_transform = FALSE]

nvRigidBody_set_collision_group(b, group) == [b EXCEPT !.collision_group = group]

\* the union of the shapes' boxes
BodyAABB(b) ==
    LET boxes == {nvShape_get_aabb(shapes[b.shapes[k]], Xform(b)) : k \in 1..Len(b.shapes)} IN
    [min_x |-> SetMin({x.min_x : x \in boxes}), min_y |-> SetMin({x.min_y : x \in boxes}),
     max_x |-> SetMax({x.max_x : x \in boxes}), max_y |-> SetMax({x.max_y : x \in boxes})]

nvRigidBody_get_aabb(b) == BodyAABB(body[b])

nvRigidBody_integrate_accelerations(b, g, dt) ==
    IF b.type = STATIC THEN b
    ELSE [b EXCEPT
            !.linear_velocity =
                nvVector2_add(b.linear_velocity,
                    nvVector2_mul(nvVector2_add(nvVector2_mul(b.force, b.invmass), g), dt)),
            !.angular_velocity = b.angular_velocity + b.invinertia * b.torque * dt,
            !.force = nvVector2_zero,
            !.torque = 0]

\* the integration without the test of the body type
nvRigidBody_integrate_velocities_any_type(b, dt) ==
    [b EXCEPT
        !.position = nvVector2_add(b.position, nvVector2_mul(b.linear_velocity, dt)),
        !.angle = b.angle + b.angular_velocity * dt]

nvRigidBody_integrate_velocities(b, dt) ==
    IF b.type = STATIC THEN b
    ELSE [b EXCEPT
            !.position = nvVector2_add(b.position, nvVector2_mul(b.linear_velocity, dt)),
            !.angle = b.angle + b.angular_velocity * dt]

nvRigidBody_apply_impulse(b, impulse) ==
    [b EXCEPT !.linear_velocity =
        nvVector2_add(b.linear_velocity, nvVector2_mul(impulse, b.invmass))]

(***************************************************************************)
(* core/hashmap.c: nvHashMap, as a function from keys to values            *)
(***************************************************************************)
EmptyMap == [k \in {} |-> NULL]

nvHashMap_set(map, key, value) ==
    [k \in DOMAIN map \cup {key} |-> IF k = key THEN value ELSE map[k]]

nvHashMap_remove(map, key) == [k \in DOMAIN map \ {key} |-> map[k]]

\* nvPersistentContactPair_hash: the pair of shape ids, in the order given
PcpKey(shape_a, shape_b) == <<shapes[shape_a].id, shapes[shape_b].id>>

\* nvHashMap_iter visits the entries in a fixed order
RECURSIVE SortedKeys(_)
SortedKeys(S) ==
    IF S = {} THEN <<>>
    ELSE LET k == CHOOSE k \in S : \A o \in S :
                      k[1] < o[1] \/ (k[1] = o[1] /\ k[2] <= o[2])
         IN <<k>> \o SortedKeys(S \ {k})

RECURSIVE Flatten(_)
Flatten(ss) == IF Len(ss) = 0 THEN <<>> ELSE Head(ss) \o Flatten(Tail(ss))

(***************************************************************************)
(* collision.c / contact.c                                                 *)
(***************************************************************************)
\* SAT and incident-face clipping for two axis-aligned rectangles
nv_collide_polygon_x_polygon(shape_a, xform_a, shape_b, xform_b) ==
    LET abox == nvShape_get_aabb(shape_a, xform_a)
        bbox == nvShape_get_aabb(shape_b, xform_b)
        sep_x == SetMax({bbox.min_x - abox.max_x, abox.min_x - bbox.max_x})
        sep_y == SetMax({bbox.min_y - abox.max_y, abox.min_y - bbox.max_y})
        on_x == sep_x >= sep_y
        separation == IF on_x THEN sep_x ELSE sep_y
        dir == IF on_x
               THEN (IF bbox.min_x + bbox.max_x >= abox.min_x + abox.max_x THEN 1 ELSE 0 - 1)
               ELSE (IF bbox.min_y + bbox.max_y >= abox.min_y + abox.max_y THEN 1 ELSE 0 - 1)
        normal == IF on_x THEN <<dir, 0>> ELSE <<0, dir>>
        face == (IF on_x THEN 0 ELSE 2) + (IF dir = 1 THEN 0 ELSE 1)
        ref == IF on_x THEN (IF dir = 1 THEN abox.max_x ELSE abox.min_x)
               ELSE (IF dir = 1 THEN abox.max_y ELSE abox.min_y)
        lo == IF on_x THEN SetMax({abox.min_y, bbox.min_y}) ELSE SetMax({abox.min_x, bbox.min_x})
        hi == IF on_x THEN SetMin({abox.max_y, bbox.max_y}) ELSE SetMin({abox.max_x, bbox.max_x})
        point(t) == IF on_x THEN <<ref, t>> ELSE <<t, ref>>
        contact(k, t) ==
            [id |-> 2 * face + k, separation |-> separation,
             anchor_a |-> nvVector2_sub(point(t), xform_a.position),
             anchor_b |-> nvVector2_sub(point(t), xform_b.position),
             is_persisted |-> FALSE, remove_invoked |-> FALSE,
             solver_info |-> [normal_impulse |-> 0, tangent_impulse |-> 0,
                              normal_mass |-> 0, velocity_bias |-> 0]]
    IN [normal |-> normal,
        contacts |-> IF separation > 0 THEN <<>> ELSE <<contact(0, lo), contact(1, hi)>>]

\* a test that takes every manifold for a penetrating one
nvPersistentContactPair_penetrating_unchecked(pcp) == TRUE

nvPersistentContactPair_penetrating(pcp) ==
    \E c \in 1..Len(pcp.contacts) : pcp.contacts[c].separation < 0

(***************************************************************************)
(* space.c: add / remove                                                   *)
(***************************************************************************)
\* nvSpace_add_body without the test of body->space
nvSpace_add_body_unchecked(b) ==
    [status |-> 0, bodies |-> nvArray_add(bodies, b).array,
     body |-> [body EXCEPT ![b].space = SELF, ![b].id = id_counter],
     id_counter |-> id_counter + 1, error |-> error]

nvSpace_add_body(b) ==
    IF body[b].space = SELF
    THEN [status |-> 2, bodies |-> bodies, body |-> body, id_counter |-> id_counter,
          error |-> "Can't add same body to same space more than once."]
    ELSE LET r == nvArray_add(bodies, b) IN
         IF r.status # 0
         THEN [status |-> 1, bodies |-> bodies, body |-> body, id_counter |-> id_counter,
               error |-> error]
         ELSE [status |-> 0, bodies |-> r.array,
               body |-> [body EXCEPT ![b].space = SELF, ![b].id = id_counter],
               id_counter |-> id_counter + 1, error |-> error]

\* every case of the switch stores its own label
nvSpace_set_broadphase(broadphase_alg_type) ==
    IF broadphase_alg_type = BRUTE_FORCE THEN BRUTE_FORCE
    ELSE IF broadphase_alg_type = SHG THEN SHG
    ELSE IF broadphase_alg_type = BVH THEN BVH
    ELSE broadphase_algorithm

\* the objects nvArray_clear passes to free_func
Released(free_all) ==
    IF free_all
    THEN {<<"body", b>> : b \in Range(bodies)}
            \cup {<<"constraint", c>> : c \in Range(constraints)}
    ELSE {}

\* a clear that starts the ids again from 0
nvSpace_clear_resetting(free_all) ==
    [status |-> 0, bodies |-> <<>>, constraints |-> <<>>, broadphase_pairs |-> <<>>,
     contacts |-> EmptyMap, freed |-> freed \cup Released(free_all), id_counter |-> 0]

\* a clear that leaves the broad-phase pairs
nvSpace_clear_keeping_pairs(free_all) ==
    [status |-> 0, bodies |-> <<>>, constraints |-> <<>>,
     broadphase_pairs |-> broadphase_pairs,
     contacts |-> EmptyMap, freed |-> freed \cup Released(free_all),
     id_counter |-> id_counter]

\* both branches empty the four collections; id_counter is not assigned
nvSpace_clear(free_all) ==
    [status |-> 0, bodies |-> <<>>, constraints |-> <<>>, broadphase_pairs |-> <<>>,
     contacts |-> EmptyMap, freed |-> freed \cup Released(free_all),
     id_counter |-> id_counter]

nvSpace_remove_body(array, b) ==
    LET r == nvArray_remove(array, b) IN
    [status |-> IF r.index = 0 THEN 1 ELSE 0, bodies |-> r.array]

nvSpace_add_constraint(c) ==
    LET r == nvArray_add(constraints, c) IN
    [status |-> r.status, constraints |-> r.array]

nvSpace_remove_constraint(c) ==
    LET r == nvArray_remove(constraints, c) IN
    [status |-> IF r.index = 0 THEN 1 ELSE 0, constraints |-> r.array]

(***************************************************************************)
(* contact listener                                                        *)
(***************************************************************************)
\* NULL: no listener.  "no_callbacks": a listener whose callbacks are NULL.
\* "observer": callbacks that only look.  "remover": on_contact_removed
\* calls nvSpace_remove_body(space, event.body_b).
Listeners == {NULL, "no_callbacks", "observer", "remover"}

HasOnContactRemoved(l) == l \in {"observer", "remover"}

\* st = [bodies, events, removed]: what the callback can reach
on_contact_removed(l, event, st) ==
    LET seen == [st EXCEPT !.events = Append(@, event)] IN
    IF l = "remover"
    THEN [seen EXCEPT !.bodies = nvSpace_remove_body(@, event.body_b).bodies,
                      !.removed = @ \cup {event.body_b}]
    ELSE seen

(***************************************************************************)
(* broadphase.c                                                            *)
(***************************************************************************)
\* the filter without the order of the body ids
nvBroadPhase_early_out_unordered(a, b) ==
    IF ~a.collision_enabled \/ ~b.collision_enabled THEN TRUE
    ELSE IF a.type = STATIC /\ b.type = STATIC THEN TRUE
    ELSE IF a.collision_group = b.collision_group /\ a.collision_group # 0 THEN TRUE
    ELSE IF BitAnd(a.collision_mask, b.collision_category) = 0 \/
            BitAnd(b.collision_mask, a.collision_category) = 0 THEN TRUE
    ELSE FALSE

\* the filter without the collision groups
nvBroadPhase_early_out_no_group(a, b) ==
    IF a.id >= b.id THEN TRUE
    ELSE IF ~a.collision_enabled \/ ~b.collision_enabled THEN TRUE
    ELSE IF a.type = STATIC /\ b.type = STATIC THEN TRUE
    ELSE IF BitAnd(a.collision_mask, b.collision_category) = 0 \/
            BitAnd(b.collision_mask, a.collision_category) = 0 THEN TRUE
    ELSE FALSE

nvBroadPhase_early_out(a, b) ==
    IF a.id >= b.id THEN TRUE
    ELSE IF ~a.collision_enabled \/ ~b.collision_enabled THEN TRUE
    ELSE IF a.type = STATIC /\ b.type = STATIC THEN TRUE
    ELSE IF a.collision_group = b.collision_group /\ a.collision_group # 0 THEN TRUE
    ELSE IF BitAnd(a.collision_mask, b.collision_category) = 0 \/
            BitAnd(b.collision_mask, a.collision_category) = 0 THEN TRUE
    ELSE FALSE

\* <<shape_a, shape_b>> in the order of the two nested shape loops
ShapePairs(a, b) ==
    Flatten([k \in 1..Len(body[a].shapes) |->
                [l \in 1..Len(body[b].shapes) |->
                    <<body[a].shapes[k], body[b].shapes[l]>>]])

OneAABB(a, b) ==
    /\ nv_collide_aabb_x_aabb(nvRigidBody_get_aabb(a), nvRigidBody_get_aabb(b))
    /\ \E k \in 1..Len(body[a].shapes) : \E l \in 1..Len(body[b].shapes) :
          nv_collide_aabb_x_aabb(
              nvShape_get_aabb(shapes[body[a].shapes[k]], Xform(body[a])),
              nvShape_get_aabb(shapes[body[b].shapes[l]], Xform(body[b])))

ContactEvent(cb, pcp, contact) ==
    [cb |-> cb, body_a |-> pcp.body_a, body_b |-> pcp.body_b,
     shape_a |-> pcp.shape_a, shape_b |-> pcp.shape_b, id |-> contact.id]

\* the loop over the contacts of one pcp that is about to be destroyed
RECURSIVE RemoveContacts(_, _, _)
RemoveContacts(pcp, c, st) ==
    IF c > Len(pcp.contacts) THEN st
    ELSE LET contact == pcp.contacts[c]
             event == ContactEvent("on_contact_removed", pcp, contact)
         IN RemoveContacts(pcp, c + 1,
                IF listener # NULL /\ ~contact.remove_invoked
                THEN (IF HasOnContactRemoved(listener)
                      THEN on_contact_removed(listener, event, st)
                      ELSE st)
                ELSE st)

\* AABBs are not touching, destroy any contact
\* st = [bodies, events, removed, contacts]
RECURSIVE DestroyContacts(_, _)
DestroyContacts(shape_pairs, st) ==
    IF Len(shape_pairs) = 0 THEN st
    ELSE LET key == PcpKey(Head(shape_pairs)[1], Head(shape_pairs)[2]) IN
         DestroyContacts(Tail(shape_pairs),
            IF key \in DOMAIN st.contacts
            THEN LET called == RemoveContacts(st.contacts[key], 1, st) IN
                 [called EXCEPT !.contacts = nvHashMap_remove(@, key)]
            ELSE st)

\* the loop body without the branch that destroys the contacts
BroadPhasePair_no_destroy(a, b, st) ==
    IF nvBroadPhase_early_out(body[a], body[b]) THEN st
    ELSE IF OneAABB(a, b)
    THEN [st EXCEPT !.pairs = Append(@, [a |-> a, b |-> b])]
    ELSE st

\* one pass of the inner loop body for the bodies a and b
BroadPhasePair(a, b, st) ==
    IF nvBroadPhase_early_out(body[a], body[b]) THEN st
    ELSE IF OneAABB(a, b)
    THEN [st EXCEPT !.pairs = Append(@, [a |-> a, b |-> b])]
    ELSE DestroyContacts(ShapePairs(a, b), st)

(***************************************************************************)
(* narrowphase.c                                                           *)
(***************************************************************************)
\* the matching of contacts without the test of settings.warmstarting
NarrowShapePair_always_copying(map, a, b, shape_a, shape_b) ==
    LET key == PcpKey(shape_a, shape_b)
        body_a == body[a]
        body_b == body[b]
        com_a == nvVector2_rotate(body_a.com, body_a.angle)
        com_b == nvVector2_rotate(body_b.com, body_b.angle)
        m == nv_collide_polygon_x_polygon(shapes[shape_a], Xform(body_a),
                                          shapes[shape_b], Xform(body_b))
        pcp == [body_a |-> a, body_b |-> b, shape_a |-> shape_a, shape_b |-> shape_b,
                normal |-> m.normal, contacts |-> m.contacts]
        relative(contact) ==
            [contact EXCEPT !.anchor_a = nvVector2_sub(@, com_a),
                            !.anchor_b = nvVector2_sub(@, com_b)]
    IN
    IF key \in DOMAIN map
    THEN LET old_pcp == map[key]
             matched(contact) ==
                 LET olds == {o \in 1..Len(old_pcp.contacts) :
                                 old_pcp.contacts[o].id = contact.id} IN
                 IF olds = {} THEN relative(contact)
                 ELSE [relative(contact) EXCEPT
                         !.is_persisted = TRUE,
                         !.solver_info = old_pcp.contacts[SetMax(olds)].solver_info]
         IN nvHashMap_set(map, key,
                [pcp EXCEPT !.contacts = [c \in 1..Len(m.contacts) |-> matched(m.contacts[c])]])
    ELSE IF nvPersistentContactPair_penetrating(pcp)
    THEN nvHashMap_set(map, key,
                [pcp EXCEPT !.contacts = [c \in 1..Len(m.contacts) |-> relative(m.contacts[c])]])
    ELSE map

NarrowShapePair(map, a, b, shape_a, shape_b) ==
    LET key == PcpKey(shape_a, shape_b)
        body_a == body[a]
        body_b == body[b]
        com_a == nvVector2_rotate(body_a.com, body_a.angle)
        com_b == nvVector2_rotate(body_b.com, body_b.angle)
        m == nv_collide_polygon_x_polygon(shapes[shape_a], Xform(body_a),
                                          shapes[shape_b], Xform(body_b))
        pcp == [body_a |-> a, body_b |-> b, shape_a |-> shape_a, shape_b |-> shape_b,
                normal |-> m.normal, contacts |-> m.contacts]
        relative(contact) ==
            [contact EXCEPT !.anchor_a = nvVector2_sub(@, com_a),
                            !.anchor_b = nvVector2_sub(@, com_b)]
    IN
    IF key \in DOMAIN map
    THEN LET old_pcp == map[key]
             matched(contact) ==
                 LET olds == {o \in 1..Len(old_pcp.contacts) :
                                 old_pcp.contacts[o].id = contact.id} IN
                 IF olds = {} THEN relative(contact)
                 ELSE [relative(contact) EXCEPT
                         !.is_persisted = TRUE,
                         !.solver_info = IF settings.warmstarting
                                         THEN old_pcp.contacts[SetMax(olds)].solver_info
                                         ELSE @]
         IN nvHashMap_set(map, key,
                [pcp EXCEPT !.contacts = [c \in 1..Len(m.contacts) |-> matched(m.contacts[c])]])
    ELSE IF nvPersistentContactPair_penetrating(pcp)
    THEN nvHashMap_set(map, key,
                [pcp EXCEPT !.contacts = [c \in 1..Len(m.contacts) |-> relative(m.contacts[c])]])
    ELSE map

\* the collision routine that both branches of nv_narrow_phase call for a
\* shape pair: the types of the shapes are not looked at
NarrowPhaseRoutine(shape_a, shape_b) == "nv_collide_polygon_x_polygon"

RECURSIVE NarrowFold(_, _)
NarrowFold(map, todo) ==
    IF Len(todo) = 0 THEN map
    ELSE LET t == Head(todo) IN
         NarrowFold(NarrowShapePair(map, t[1], t[2], t[3], t[4]), Tail(todo))

nv_narrow_phase ==
    NarrowFold(contacts,
        Flatten([i \in 1..Len(broadphase_pairs) |->
            LET a == broadphase_pairs[i].a
                b == broadphase_pairs[i].b
                sp == ShapePairs(a, b)
            IN [n \in 1..Len(sp) |-> <<a, b, sp[n][1], sp[n][2]>>]]))

(***************************************************************************)
(* constraints/constraint.c: a distance joint between the bodies a and b   *)
(***************************************************************************)
ConstraintNormal(a, b) ==
    LET d == nvVector2_sub(b.position, a.position) IN
    IF Abs(d[1]) >= Abs(d[2]) THEN <<Sign(d[1]), 0>> ELSE <<0, Sign(d[2])>>

nvConstraint_presolve(heap, c) ==
    [c EXCEPT !.normal = ConstraintNormal(heap[c.a], heap[c.b]),
              !.invmass = heap[c.a].invmass + heap[c.b].invmass]

\* applies lambda along the normal: minus to body_a, plus to body_b
ApplyPair(heap, pcp, lambda) ==
    [b \in DOMAIN heap |->
        LET minus == IF b = pcp.body_a
                     THEN nvRigidBody_apply_impulse(heap[b],
                              nvVector2_mul(pcp.normal, 0 - lambda))
                     ELSE heap[b]
        IN IF b = pcp.body_b
           THEN nvRigidBody_apply_impulse(minus, nvVector2_mul(pcp.normal, lambda))
           ELSE minus]

\* returns the heap of bodies after the stored impulse has been applied
nvConstraint_warmstart(heap, c) ==
    ApplyPair(heap, [body_a |-> c.a, body_b |-> c.b, normal |-> c.normal], c.impulse)

ConstraintLambda(heap, c) ==
    LET cdot == nvVector2_dot(
                    nvVector2_sub(heap[c.b].linear_velocity, heap[c.a].linear_velocity),
                    c.normal)
    IN IF c.invmass = 0 THEN 0 ELSE Quot(0 - cdot, c.invmass)

(***************************************************************************)
(* constraints/contact_constraint.c                                        *)
(***************************************************************************)
nv_contact_presolve(heap, pcp) ==
    [pcp EXCEPT !.contacts =
        [c \in 1..Len(pcp.contacts) |->
            [pcp.contacts[c] EXCEPT
                !.solver_info.normal_mass =
                    heap[pcp.body_a].invmass + heap[pcp.body_b].invmass,
                !.solver_info.velocity_bias = 0]]]

\* st = [heap, map]; one contact of the pcp stored under key
WarmstartContact(st, key, c) ==
    LET pcp == st.map[key]
        contact == pcp.contacts[c]
    IN IF settings.warmstarting /\ contact.is_persisted
       THEN [st EXCEPT !.heap = ApplyPair(@, pcp, contact.solver_info.normal_impulse)]
       ELSE [st EXCEPT !.map[key].contacts[c].solver_info.normal_impulse = 0,
                       !.map[key].contacts[c].solver_info.tangent_impulse = 0]

SolveContact(st, key, c) ==
    LET pcp == st.map[key]
        contact == pcp.contacts[c]
        a == st.heap[pcp.body_a]
        b == st.heap[pcp.body_b]
        kn == contact.solver_info.normal_mass
        vn == nvVector2_dot(nvVector2_sub(b.linear_velocity, a.linear_velocity), pcp.normal)
        lambda == IF kn = 0 THEN 0
                  ELSE Quot(0 - (vn - contact.solver_info.velocity_bias), kn)
        old == contact.solver_info.normal_impulse
        new == IF old + lambda < 0 THEN 0 ELSE old + lambda
    IN [st EXCEPT !.heap = ApplyPair(@, pcp, new - old),
                  !.map[key].contacts[c].solver_info.normal_impulse = new]

\* an entry of solver_log: the function called, its constraint or contact
\* pair, and the velocity iteration that made the call (0 outside the
\* iterations)
SolverCall(call, arg, iter) == [call |-> call, arg |-> arg, iter |-> iter]

\* nv_contact_warmstart: every contact of the pcp stored under key
RECURSIVE WarmstartPcpContacts(_, _, _)
WarmstartPcpContacts(st, key, c) ==
    IF c > Len(st.map[key].contacts) THEN st
    ELSE WarmstartPcpContacts(WarmstartContact(st, key, c), key, c + 1)

nv_contact_warmstart(st, key) ==
    WarmstartPcpContacts(
        [st EXCEPT !.log = Append(@, SolverCall("nv_contact_warmstart", key, 0))],
        key, 1)

\* nv_contact_solve_velocity: every contact of the pcp stored under key
RECURSIVE SolvePcpContacts(_, _, _)
SolvePcpContacts(st, key, c) ==
    IF c > Len(st.map[key].contacts) THEN st
    ELSE SolvePcpContacts(SolveContact(st, key, c), key, c + 1)

nv_contact_solve_velocity(st, key, i) ==
    SolvePcpContacts(
        [st EXCEPT !.log = Append(@, SolverCall("nv_contact_solve_velocity", key, i))],
        key, 1)

\* st = [heap, map, log]; keys in the order of nvHashMap_iter
RECURSIVE WarmstartContacts(_, _)
WarmstartContacts(st, keys) ==
    IF Len(keys) = 0 THEN st
    ELSE WarmstartContacts(nv_contact_warmstart(st, Head(keys)), Tail(keys))

RECURSIVE SolveContacts(_, _, _)
SolveContacts(st, keys, i) ==
    IF Len(keys) = 0 THEN st
    ELSE SolveContacts(nv_contact_solve_velocity(st, Head(keys), i), Tail(keys), i)

\* a single pass over the contacts instead of velocity_iters passes
SolveContactsIterations_once(st, i) == SolveContacts(st, SortedKeys(DOMAIN st.map), i)

\* for (i = 0; i < velocity_iters; i++) while (nvHashMap_iter(...))
RECURSIVE SolveContactsIterations(_, _)
SolveContactsIterations(st, i) ==
    IF i >= settings.velocity_iterations THEN st
    ELSE SolveContactsIterations(SolveContacts(st, SortedKeys(DOMAIN st.map), i), i + 1)

(***************************************************************************)
(* space.c: the loops of nvSpace_step                                      *)
(***************************************************************************)
RECURSIVE IntegrateAccelerationsLoop(_, _)
IntegrateAccelerationsLoop(heap, body_i) ==
    IF body_i > Len(bodies) THEN heap
    ELSE LET b == bodies[body_i]
             reset == IF heap[b].type # STATIC
                      THEN [heap[b] EXCEPT !.cache_aabb = FALSE, !.cache_transform = FALSE]
                      ELSE heap[b]
         IN IntegrateAccelerationsLoop(
                [heap EXCEPT ![b] = nvRigidBody_integrate_accelerations(reset, gravity, step.dt)],
                body_i + 1)

RECURSIVE IntegrateVelocitiesLoop(_, _)
IntegrateVelocitiesLoop(heap, body_i) ==
    IF body_i > Len(bodies) THEN heap
    ELSE LET b == bodies[body_i]
             moved == nvRigidBody_integrate_velocities(heap[b], step.dt)
         IN IntegrateVelocitiesLoop(
                [heap EXCEPT ![b] =
                    [moved EXCEPT !.origin =
                        nvVector2_sub(moved.position, nvVector2_rotate(moved.com, moved.angle))]],
                body_i + 1)

\* st = [heap, cons, log]
RECURSIVE PresolveConstraintsLoop(_, _)
PresolveConstraintsLoop(st, i) ==
    IF i > Len(constraints) THEN st
    ELSE PresolveConstraintsLoop(
            [st EXCEPT !.cons[constraints[i]] = nvConstraint_presolve(st.heap, @),
                       !.log = Append(@, SolverCall("nvConstraint_presolve",
                                                    constraints[i], 0))],
            i + 1)

RECURSIVE WarmstartConstraintsLoop(_, _)
WarmstartConstraintsLoop(st, i) ==
    IF i > Len(constraints) THEN st
    ELSE LET called == [st EXCEPT !.log =
                            Append(@, SolverCall("nvConstraint_warmstart",
                                                 constraints[i], 0))]
         IN WarmstartConstraintsLoop(
                IF settings.warmstarting
                THEN [called EXCEPT
                        !.heap = nvConstraint_warmstart(@, st.cons[constraints[i]])]
                ELSE [called EXCEPT !.cons[constraints[i]].impulse = 0],
                i + 1)

nvConstraint_solve(st, c) ==
    LET lambda == ConstraintLambda(st.heap, st.cons[c])
        cn == st.cons[c]
        pair == [body_a |-> cn.a, body_b |-> cn.b, normal |-> cn.normal]
    IN [st EXCEPT !.heap = ApplyPair(@, pair, lambda),
                  !.cons[c].impulse = @ + lambda]

RECURSIVE SolveConstraintsLoop(_, _, _)
SolveConstraintsLoop(st, i, j) ==
    IF i > settings.velocity_iterations THEN st
    ELSE IF j > Len(constraints) THEN SolveConstraintsLoop(st, i + 1, 1)
    ELSE SolveConstraintsLoop(
            nvConstraint_solve(
                [st EXCEPT !.log = Append(@, SolverCall("nvConstraint_solve",
                                                        constraints[j], i - 1))],
                constraints[j]),
            i, j + 1)

\* the contacts are not prepared
PresolveContactsLoop_skipped(st, keys) == st

RECURSIVE PresolveContactsLoop(_, _)
PresolveContactsLoop(st, keys) ==
    IF Len(keys) = 0 THEN st
    ELSE PresolveContactsLoop(
            [st EXCEPT !.map[Head(keys)] = nv_contact_presolve(st.heap, @),
                       !.log = Append(@, SolverCall("nv_contact_presolve",
                                                    Head(keys), 0))],
            Tail(keys))

(***************************************************************************)
(* The API, called between steps                                           *)
(***************************************************************************)
Idle == step.pc = "idle"

NoSnapshot == [b \in Bodies |-> <<>>]

IdleStep ==
    [pc |-> "idle", substep |-> 0, dt |-> 0, i |-> 0, j |-> 0, a |-> 0,
     removed |-> {}, pre |-> NoSnapshot]

Call(op, arg, status) == [op |-> op, arg |-> arg, status |-> status]

\* a program does not pass a freed object to the space
Alive(kind, x) == <<kind, x>> \notin freed

AddBody(b) ==
    /\ Idle
    /\ Alive("body", b)
    /\ Len(body[b].shapes) > 0
    /\ LET r == nvSpace_add_body(b) IN
        /\ bodies' = r.bodies
        /\ body' = r.body
        /\ id_counter' = r.id_counter
        /\ error' = r.error
        /\ last_call' = Call("add_body", b, r.status)
    /\ UNCHANGED <<kill_bounds, use_kill_bounds, freed, solver_log, shg_vars,
                   shape_id_counter, shapes, cons, constraints, broadphase_pairs,
                   contacts, gravity, settings, listener, broadphase_algorithm,
                   step, events>>

RemoveBody(b) ==
    /\ Idle
    /\ Alive("body", b)
    /\ LET r == nvSpace_remove_body(bodies, b) IN
        /\ bodies' = r.bodies
        /\ last_call' = Call("remove_body", b, r.status)
    /\ UNCHANGED <<kill_bounds, use_kill_bounds, freed, error, solver_log, shg_vars,
                   shape_id_counter, shapes, body, cons, constraints,
                   broadphase_pairs, contacts, id_counter, gravity, settings,
                   listener, broadphase_algorithm, step, events>>

AddConstraint(c) ==
    /\ Idle
    /\ Alive("constraint", c)
    /\ Len(constraints) < MaxConstraintEntries
    /\ LET r == nvSpace_add_constraint(c) IN
        /\ constraints' = r.constraints
        /\ last_call' = Call("add_constraint", c, r.status)
    /\ UNCHANGED <<kill_bounds, use_kill_bounds, freed, error, solver_log, shg_vars,
                   shape_id_counter, shapes, body, cons, bodies, broadphase_pairs,
                   contacts, id_counter, gravity, settings, listener,
                   broadphase_algorithm, step, events>>

RemoveConstraint(c) ==
    /\ Idle
    /\ Alive("constraint", c)
    /\ LET r == nvSpace_remove_constraint(c) IN
        /\ constraints' = r.constraints
        /\ last_call' = Call("remove_constraint", c, r.status)
    /\ UNCHANGED <<kill_bounds, use_kill_bounds, freed, error, solver_log, shg_vars,
                   shape_id_counter, shapes, body, cons, bodies, broadphase_pairs,
                   contacts, id_counter, gravity, settings, listener,
                   broadphase_algorithm, step, events>>

ClearSpace(free_all) ==
    /\ Idle
    /\ LET r == nvSpace_clear(free_all) IN
        /\ bodies' = r.bodies
        /\ constraints' = r.constraints
        /\ broadphase_pairs' = r.broadphase_pairs
        /\ contacts' = r.contacts
        /\ freed' = r.freed
        /\ id_counter' = r.id_counter
        /\ last_call' = Call("clear", IF free_all THEN 1 ELSE 0, r.status)
    /\ UNCHANGED <<kill_bounds, use_kill_bounds, error, solver_log, shg_vars,
                   shape_id_counter, shapes, body, cons, gravity, settings,
                   listener, broadphase_algorithm, step, events>>

SetBroadphase(alg) ==
    /\ Idle
    /\ broadphase_algorithm' = nvSpace_set_broadphase(alg)
    /\ last_call' = Call("set_broadphase", 0, 0)
    /\ UNCHANGED <<kill_bounds, use_kill_bounds, freed, error, solver_log, shg_vars,
                   shape_id_counter, shapes, body, cons, bodies, constraints,
                   broadphase_pairs, contacts, id_counter, gravity, settings,
                   listener, step, events>>

SetContactListener(l) ==
    /\ Idle
    /\ listener' = l
    /\ last_call' = Call("set_contact_listener", 0, 0)
    /\ UNCHANGED <<kill_bounds, use_kill_bounds, freed, error, solver_log, shg_vars,
                   shape_id_counter, shapes, body, cons, bodies, constraints,
                   broadphase_pairs, contacts, id_counter, gravity, settings,
                   broadphase_algorithm, step, events>>

\* space->settings.substeps = n
SetSubsteps(n) ==
    /\ Idle
    /\ settings' = [settings EXCEPT !.substeps = n]
    /\ last_call' = Call("settings.substeps", n, 0)
    /\ UNCHANGED <<kill_bounds, use_kill_bounds, freed, error, solver_log, shg_vars,
                   shape_id_counter, shapes, body, cons, bodies, constraints,
                   broadphase_pairs, contacts, id_counter, gravity, listener,
                   broadphase_algorithm, step, events>>

BodySetPosition(b, new_position) ==
    /\ Idle
    /\ body[b].position # new_position
    /\ body' = [body EXCEPT ![b] = nvRigidBody_set_position(@, new_position)]
    /\ last_call' = Call("set_position", b, 0)
    /\ UNCHANGED <<kill_bounds, use_kill_bounds, freed, error, solver_log, shg_vars,
                   shape_id_counter, shapes, cons, bodies, constraints,
                   broadphase_pairs, contacts, id_counter, gravity, settings,
                   listener, broadphase_algorithm, step, events>>

SetCollisionGroup(b, group) ==
    /\ Idle
    /\ body[b].collision_group # group
    /\ body' = [body EXCEPT ![b] = nvRigidBody_set_collision_group(@, group)]
    /\ last_call' = Call("set_collision_group", b, 0)
    /\ UNCHANGED <<kill_bounds, use_kill_bounds, freed, error, solver_log, shg_vars,
                   shape_id_counter, shapes, cons, bodies, constraints,
                   broadphase_pairs, contacts, id_counter, gravity, settings,
                   listener, broadphase_algorithm, step, events>>

\* space->settings.warmstarting = w
SetWarmstarting(w) ==
    /\ Idle
    /\ settings.warmstarting # w
    /\ settings' = [settings EXCEPT !.warmstarting = w]
    /\ last_call' = Call("settings.warmstarting", IF w THEN 1 ELSE 0, 0)
    /\ UNCHANGED <<kill_bounds, use_kill_bounds, freed, error, solver_log, shg_vars,
                   shape_id_counter, shapes, body, cons, bodies, constraints,
                   broadphase_pairs, contacts, id_counter, gravity, listener,
                   broadphase_algorithm, step, events>>

(***************************************************************************)
(* nvSpace_step                                                            *)
(***************************************************************************)
Snapshot ==
    [b \in Bodies |-> <<body[b].position, body[b].angle,
                        body[b].linear_velocity, body[b].angular_velocity>>]

InBounds ==
    \A b \in Bodies :
        /\ Abs(body[b].position[1]) <= MaxCoord
        /\ Abs(body[b].position[2]) <= MaxCoord
        /\ Abs(body[b].linear_velocity[1]) <= MaxSpeed
        /\ Abs(body[b].linear_velocity[2]) <= MaxSpeed

\* the guard without the test of dt
StepReturnsEarly_substeps_only(dt) == settings.substeps <= 0

\* the guard at the top of nvSpace_step
StepReturnsEarly(dt) == dt = 0 \/ settings.substeps <= 0

StepCall(dt) ==
    /\ Idle
    /\ last_call' = Call("step", dt, 0)
    /\ IF StepReturnsEarly(dt)
       THEN UNCHANGED <<step, events>>
       ELSE /\ InBounds
            /\ dt % settings.substeps = 0
            /\ dt \div settings.substeps <= MaxDt
            /\ step' = [IdleStep EXCEPT !.pc = "integrate_accelerations",
                                        !.dt = dt \div settings.substeps,
                                        !.pre = Snapshot]
            /\ events' = <<>>
    /\ UNCHANGED <<kill_bounds, use_kill_bounds, freed, error, solver_log, shg_vars,
                   shape_id_counter, shapes, body, cons, bodies, constraints,
                   broadphase_pairs, contacts, id_counter, gravity, settings,
                   listener, broadphase_algorithm>>

IntegrateAccelerations ==
    /\ step.pc = "integrate_accelerations"
    /\ body' = IntegrateAccelerationsLoop(body, 1)
    /\ step' = [step EXCEPT !.pc = "broadphase_switch"]
    /\ solver_log' = <<>>
    /\ UNCHANGED <<kill_bounds, use_kill_bounds, freed, error, shg_vars,
                   shape_id_counter, shapes, cons, bodies, constraints,
                   broadphase_pairs, contacts, id_counter, gravity, settings,
                   listener, broadphase_algorithm, events, last_call>>

\* the head of the outer loop: a = bodies->data[i], abox = nvRigidBody_get_aabb(a)
OuterLoop(i) ==
    IF i <= Len(bodies)
    THEN step' = [step EXCEPT !.pc = "broadphase", !.i = i, !.j = 1, !.a = bodies[i]]
    ELSE step' = [step EXCEPT !.pc = "narrowphase", !.i = 0, !.j = 0, !.a = 0]

BroadphaseSwitch ==
    /\ step.pc = "broadphase_switch"
    /\ IF broadphase_algorithm = BRUTE_FORCE
       THEN /\ broadphase_pairs' = <<>>
            /\ OuterLoop(1)
       ELSE /\ step' = [step EXCEPT !.pc = "narrowphase"]
            /\ UNCHANGED broadphase_pairs
    /\ UNCHANGED <<kill_bounds, use_kill_bounds, freed, error, solver_log, shg_vars,
                   shape_id_counter, shapes, body, cons, bodies, constraints, contacts,
                   id_counter, gravity, settings, listener, broadphase_algorithm,
                   events, last_call>>

\* one pass of the inner loop of nv_broadphase_brute_force
BroadphaseInner ==
    /\ step.pc = "broadphase"
    /\ IF step.j <= Len(bodies)
       THEN LET b == bodies[step.j]
                st == BroadPhasePair(step.a, b,
                        [bodies |-> bodies, events |-> events, removed |-> step.removed,
                         contacts |-> contacts, pairs |-> broadphase_pairs])
            IN /\ bodies' = st.bodies
               /\ events' = st.events
               /\ contacts' = st.contacts
               /\ broadphase_pairs' = st.pairs
               /\ step' = [step EXCEPT !.j = @ + 1, !.removed = st.removed]
       ELSE /\ OuterLoop(step.i + 1)
            /\ UNCHANGED <<bodies, events, contacts, broadphase_pairs>>
    /\ UNCHANGED <<kill_bounds, use_kill_bounds, freed, error, solver_log, shg_vars,
                   shape_id_counter, shapes, body, cons, constraints, id_counter,
                   gravity, settings, listener, broadphase_algorithm, last_call>>

NarrowPhase ==
    /\ step.pc = "narrowphase"
    /\ contacts' = nv_narrow_phase
    /\ step' = [step EXCEPT !.pc = "presolve_constraints"]
    /\ UNCHANGED <<kill_bounds, use_kill_bounds, freed, error, solver_log, shg_vars,
                   shape_id_counter, shapes, body, cons, bodies, constraints,
                   broadphase_pairs, id_counter, gravity, settings, listener,
                   broadphase_algorithm, events, last_call>>

PresolveConstraints ==
    /\ step.pc = "presolve_constraints"
    /\ LET st == WarmstartConstraintsLoop(
                    PresolveConstraintsLoop(
                        [heap |-> body, cons |-> cons, log |-> solver_log], 1), 1)
       IN body' = st.heap /\ cons' = st.cons /\ solver_log' = st.log
    /\ step' = [step EXCEPT !.pc = "solve_constraints"]
    /\ UNCHANGED <<kill_bounds, use_kill_bounds, freed, error, shg_vars,
                   shape_id_counter, shapes, bodies, constraints, broadphase_pairs,
                   contacts, id_counter, gravity, settings, listener,
                   broadphase_algorithm, events, last_call>>

SolveConstraints ==
    /\ step.pc = "solve_constraints"
    /\ LET st == SolveConstraintsLoop(
                    [heap |-> body, cons |-> cons, log |-> solver_log], 1, 1)
       IN body' = st.heap /\ cons' = st.cons /\ solver_log' = st.log
    /\ step' = [step EXCEPT !.pc = "presolve_contacts"]
    /\ UNCHANGED <<kill_bounds, use_kill_bounds, freed, error, shg_vars,
                   shape_id_counter, shapes, bodies, constraints, broadphase_pairs,
                   contacts, id_counter, gravity, settings, listener,
                   broadphase_algorithm, events, last_call>>

PresolveContacts ==
    /\ step.pc = "presolve_contacts"
    /\ LET keys == SortedKeys(DOMAIN contacts)
           st == WarmstartContacts(
                    PresolveContactsLoop(
                        [heap |-> body, map |-> contacts, log |-> solver_log], keys),
                    keys)
       IN body' = st.heap /\ contacts' = st.map /\ solver_log' = st.log
    /\ step' = [step EXCEPT !.pc = "solve_contacts"]
    /\ UNCHANGED <<kill_bounds, use_kill_bounds, freed, error, shg_vars,
                   shape_id_counter, shapes, cons, bodies, constraints,
                   broadphase_pairs, id_counter, gravity, settings, listener,
                   broadphase_algorithm, events, last_call>>

SolveContactVelocities ==
    /\ step.pc = "solve_contacts"
    /\ LET st == SolveContactsIterations(
                    [heap |-> body, map |-> contacts, log |-> solver_log], 0)
       IN body' = st.heap /\ contacts' = st.map /\ solver_log' = st.log
    /\ step' = [step EXCEPT !.pc = "integrate_velocities"]
    /\ UNCHANGED <<kill_bounds, use_kill_bounds, freed, error, shg_vars,
                   shape_id_counter, shapes, cons, bodies, constraints,
                   broadphase_pairs, id_counter, gravity, settings, listener,
                   broadphase_algorithm, events, last_call>>

IntegrateVelocities ==
    /\ step.pc = "integrate_velocities"
    /\ body' = IntegrateVelocitiesLoop(body, 1)
    /\ step' = IF step.substep + 1 < settings.substeps
               THEN [step EXCEPT !.pc = "integrate_accelerations", !.substep = @ + 1,
                                 !.removed = {}]
               ELSE [step EXCEPT !.pc = "end"]
    /\ UNCHANGED <<kill_bounds, use_kill_bounds, freed, error, solver_log, shg_vars,
                   shape_id_counter, shapes, cons, bodies, constraints,
                   broadphase_pairs, contacts, id_counter, gravity, settings,
                   listener, broadphase_algorithm, events, last_call>>

StepReturn ==
    /\ step.pc = "end"
    /\ step' = IdleStep
    /\ events' = <<>>
    /\ solver_log' = <<>>
    /\ UNCHANGED <<kill_bounds, use_kill_bounds, freed, error, shg_vars,
                   shape_id_counter, shapes, body, cons, bodies, constraints,
                   broadphase_pairs, contacts, id_counter, gravity, settings,
                   listener, broadphase_algorithm, last_call>>

(***************************************************************************)
(* The older broadphase.c: nv_BroadPhase_SHG_multithreaded on nv_Space and *)
(* nv_Body. Every body carries one rectangle of half-extent 1. The bodies  *)
(* sit on the row y = 1 of a grid of SHGCols x SHGRows cells of CellSize.  *)
(***************************************************************************)
NumWorkers == 4
threshold == 3
CellSize == 3
SHGCols == 4
SHGRows == 1
collision_persistence == 1
Unlocked == 0           \* pair_mutex when no worker holds it

SHGBounds ==
    [min_x |-> 0, min_y |-> 0,
     max_x |-> SHGCols * CellSize, max_y |-> SHGRows * CellSize]

nv_Body_new(id, type, position, linear_velocity) ==
    [id |-> id, type |-> type, position |-> position,
     linear_velocity |-> linear_velocity, enable_collision |-> TRUE,
     is_sleeping |-> FALSE, collision_group |-> 0,
     collision_category |-> 3, collision_mask |-> 3]

nv_Body_get_aabb(b) ==
    [min_x |-> body[b].position[1] - 1, min_y |-> body[b].position[2] - 1,
     max_x |-> body[b].position[1] + 1, max_y |-> body[b].position[2] + 1]

nv_Vector2_len2(v) == v[1] * v[1] + v[2] * v[2]

\* nv_pair of the two ids, smaller id first
IdPair(a, b) ==
    IF body[a].id < body[b].id THEN <<body[a].id, body[b].id>>
    ELSE <<body[b].id, body[a].id>>

\* space->sleeping is off
nv_BroadPhase_early_out(a, b) ==
    IF a = b THEN TRUE
    ELSE IF ~body[a].enable_collision \/ ~body[b].enable_collision THEN TRUE
    ELSE IF body[a].type = STATIC /\ body[b].type = STATIC THEN TRUE
    ELSE IF body[a].collision_group = body[b].collision_group /\
            body[a].collision_group # 0 THEN TRUE
    ELSE IF BitAnd(body[a].collision_mask, body[b].collision_category) = 0 \/
            BitAnd(body[b].collision_mask, body[a].collision_category) = 0 THEN TRUE
    ELSE FALSE

\* the cells (nv_int16)(box / cell size) of a box, row by row
CellsOf(box) ==
    LET min_x == Quot(box.min_x, CellSize)
        min_y == Quot(box.min_y, CellSize)
        max_x == Quot(box.max_x, CellSize)
        max_y == Quot(box.max_y, CellSize)
    IN Flatten([r \in 1..(max_y - min_y + 1) |->
                  [c \in 1..(max_x - min_x + 1) |-> <<min_x + c - 1, min_y + r - 1>>]])

InGrid(cell) ==
    /\ 0 <= cell[1] /\ cell[1] < SHGCols
    /\ 0 <= cell[2] /\ cell[2] < SHGRows

\* nv_SHG_place, nv_SHG_get: the bodies whose box covers the cell, in the
\* order of space->bodies; a cell outside the grid holds nothing
nv_SHG_get(cell) ==
    IF ~InGrid(cell) THEN <<>>
    ELSE SelectSeq(bodies, LAMBDA b : cell \in Range(CellsOf(nv_Body_get_aabb(b))))

\* nv_SHG_get_neighbors: the eight cells around a cell; those outside the
\* grid have their flag off
nv_SHG_get_neighbors(cell) ==
    LET offsets == << <<0 - 1, 0 - 1>>, <<0, 0 - 1>>, <<1, 0 - 1>>, <<0 - 1, 0>>,
                      <<1, 0>>, <<0 - 1, 1>>, <<0, 1>>, <<1, 1>> >>
    IN [j \in 1..8 |->
          [cell |-> nvVector2_add(cell, offsets[j]),
           flag |-> InGrid(nvVector2_add(cell, offsets[j]))]]

\* the <<a, b>> that the loops over the cells of a, the nine cells around
\* each and the bodies of those cells visit, in order
Visits(array) ==
    LET Around(cell) ==
            LET n == nv_SHG_get_neighbors(cell) IN
            Flatten([j \in 1..9 |->
                IF j = 9 THEN nv_SHG_get(cell)
                ELSE IF n[j].flag THEN nv_SHG_get(n[j].cell) ELSE <<>>])
        VisitsOf(a) ==
            LET cells == CellsOf(nv_Body_get_aabb(a))
                found == Flatten([i \in 1..Len(cells) |-> Around(cells[i])])
            IN [k \in 1..Len(found) |-> <<a, found[k]>>]
    IN Flatten([i \in 1..Len(array) |-> VisitsOf(array[i])])

\* the arrays a0..a3
Partition(w) ==
    LET q == SHGBounds.max_x \div NumWorkers
        x(b) == body[b].position[1]
    IN SelectSeq(bodies, LAMBDA b :
         IF x(b) > SHGBounds.min_x /\ x(b) <= q * 1 THEN w = 1
         ELSE IF x(b) > q * 1 /\ x(b) < q * 2 THEN w = 2
         ELSE IF x(b) > q * 2 /\ x(b) < q * 3 THEN w = 3
         ELSE IF x(b) > q * 3 /\ x(b) < SHGBounds.max_x THEN w = 4
         ELSE FALSE)

\* the two rectangles collide when their boxes overlap
nv_contact_polygon_x_polygon(a, b) ==
    nv_collide_aabb_x_aabb(nv_Body_get_aabb(a), nv_Body_get_aabb(b))

\* an update that removes a cached resolution one update early
nv_update_resolution_early(st, a, b) ==
    LET r == st.res[<<a, b>>] IN
    IF r.state \in {"nv_ResolutionState_FIRST", "nv_ResolutionState_NORMAL"}
    THEN [st EXCEPT !.res[<<a, b>>].state = "nv_ResolutionState_CACHED"]
    ELSE IF r.lifetime <= 1
    THEN [st EXCEPT !.res = nvHashMap_remove(st.res, <<a, b>>)]
    ELSE [st EXCEPT !.res[<<a, b>>].lifetime = r.lifetime - 1]

nv_update_resolution(st, a, b) ==
    LET r == st.res[<<a, b>>] IN
    IF r.state \in {"nv_ResolutionState_FIRST", "nv_ResolutionState_NORMAL"}
    THEN [st EXCEPT !.res[<<a, b>>].state = "nv_ResolutionState_CACHED"]
    ELSE IF r.lifetime <= 0
    THEN [st EXCEPT !.res = nvHashMap_remove(st.res, <<a, b>>)]
    ELSE [st EXCEPT !.res[<<a, b>>].lifetime = r.lifetime - 1]

\* a narrow-phase that leaves the lifetime of a cached resolution as it is
nv_narrow_phase_res_no_reset(st, a, b, res_exists) ==
    IF nv_contact_polygon_x_polygon(a, b)
    THEN IF res_exists
         THEN LET r == st.res[<<a, b>>] IN
              IF r.state = "nv_ResolutionState_CACHED"
              THEN [st EXCEPT !.res[<<a, b>>].state = "nv_ResolutionState_FIRST"]
              ELSE IF r.state = "nv_ResolutionState_FIRST"
              THEN [st EXCEPT !.res[<<a, b>>].state = "nv_ResolutionState_NORMAL"]
              ELSE st
         ELSE [st EXCEPT
                !.res = nvHashMap_set(st.res, <<a, b>>,
                            [state |-> "nv_ResolutionState_FIRST",
                             lifetime |-> collision_persistence]),
                !.created = TRUE]
    ELSE IF res_exists THEN nv_update_resolution(st, a, b)
    ELSE st

\* st.res is space->res; st.created counts the resolutions made by the call
nv_narrow_phase_res(st, a, b, res_exists) ==
    IF nv_contact_polygon_x_polygon(a, b)
    THEN IF res_exists
         THEN LET r == st.res[<<a, b>>] IN
              IF r.state = "nv_ResolutionState_CACHED"
              THEN [st EXCEPT !.res[<<a, b>>] =
                        [state |-> "nv_ResolutionState_FIRST",
                         lifetime |-> collision_persistence]]
              ELSE IF r.state = "nv_ResolutionState_FIRST"
              THEN [st EXCEPT !.res[<<a, b>>].state = "nv_ResolutionState_NORMAL"]
              ELSE st
         ELSE [st EXCEPT
                !.res = nvHashMap_set(st.res, <<a, b>>,
                            [state |-> "nv_ResolutionState_FIRST",
                             lifetime |-> collision_persistence]),
                !.created = TRUE]
    ELSE IF res_exists THEN nv_update_resolution(st, a, b)
    ELSE st

nv_midphase(st, a, b, res_exists) ==
    IF nv_collide_aabb_x_aabb(nv_Body_get_aabb(a), nv_Body_get_aabb(b))
    THEN nv_narrow_phase_res(st, a, b, res_exists)
    ELSE IF res_exists THEN nv_update_resolution(st, a, b)
    ELSE st

\* the loop over space->res after the workers were joined
RECURSIVE FastBodiesLoop(_, _)
FastBodiesLoop(st, keys) ==
    IF Len(keys) = 0 THEN st
    ELSE LET a == Head(keys)[1]
             b == Head(keys)[2]
             t2 == threshold * threshold
             fast == nv_Vector2_len2(body[a].linear_velocity) > t2 \/
                     nv_Vector2_len2(body[b].linear_velocity) > t2
         IN IF fast /\ Head(keys) \in DOMAIN st.res
            THEN FastBodiesLoop(nv_midphase(st, a, b, TRUE), Tail(keys))
            ELSE FastBodiesLoop(st, Tail(keys))

(***************************************************************************)
(* The steps of nv_BroadPhase_SHG_multithreaded and of its four workers    *)
(***************************************************************************)
space_vars == <<shape_id_counter, shapes, cons, bodies, constraints,
                broadphase_pairs, contacts, id_counter, gravity, settings,
                listener, broadphase_algorithm, kill_bounds, use_kill_bounds,
                freed, error, step, solver_log, events>>

\* the position of a body is written between two broad-phases
SetPosition(b, x) ==
    /\ threads = <<>>
    /\ body[b].position[1] # x
    /\ body' = [body EXCEPT ![b].position = <<x, 1>>]
    /\ last_call' = Call("set_position", b, 0)
    /\ UNCHANGED <<space_vars, shg_vars>>

\* nv_Space_add between two broad-phases; the bodies are added in the order
\* of their ids
SpaceAdd(b) ==
    /\ threads = <<>>
    /\ b = Len(bodies) + 1
    /\ bodies' = Append(bodies, b)
    /\ last_call' = Call("nv_Space_add", b, 0)
    /\ UNCHANGED <<shape_id_counter, shapes, cons, constraints, broadphase_pairs,
                   contacts, id_counter, gravity, settings, listener,
                   broadphase_algorithm, kill_bounds, use_kill_bounds, freed,
                   error, step, solver_log, events, body, shg_vars>>

\* nv_SHG_place, nv_HashMap_clear(space->pairs), the four arrays, Mutex_new
\* and the four Thread_create
SHGMultithreaded ==
    /\ threads = <<>>
    /\ pairs' = {}
    /\ pair_mutex' = Unlocked
    /\ threads' = [w \in (1..NumWorkers) |->
                      [pc |-> "visit", todo |-> Visits(Partition(w)), a |-> 0, b |-> 0]]
    /\ midphase_calls' = <<>>
    /\ last_call' = Call("nv_BroadPhase_SHG_multithreaded", 0, 0)
    /\ UNCHANGED <<space_vars, body, res>>

\* what nv_HashMap_get(space->pairs) returns to worker w: the read is not
\* ordered with a nv_HashMap_set that another worker is executing
Lookup(w, id_pair) ==
    IF \E v \in (1..NumWorkers) \ {w} : threads[v].pc = "set" THEN BOOLEAN
    ELSE {id_pair \in pairs}

\* one turn of the innermost loop up to the lookup in space->pairs
Visit(w) ==
    /\ w \in DOMAIN threads /\ threads[w].pc = "visit"
    /\ threads[w].todo # <<>>
    /\ LET a == Head(threads[w].todo)[1]
           b == Head(threads[w].todo)[2]
       IN IF nv_BroadPhase_early_out(a, b)
          THEN threads' = [threads EXCEPT ![w].todo = Tail(@)]
          ELSE \E found \in Lookup(w, IdPair(a, b)) :
                  threads' = [threads EXCEPT
                      ![w].todo = Tail(@),
                      ![w].pc = IF found THEN "visit" ELSE "lock",
                      ![w].a = IF found THEN 0 ELSE a,
                      ![w].b = IF found THEN 0 ELSE b]
    /\ UNCHANGED <<space_vars, body, last_call, pairs, res, pair_mutex, midphase_calls>>

MutexLock(w) ==
    /\ w \in DOMAIN threads /\ threads[w].pc = "lock"
    /\ pair_mutex = Unlocked
    /\ pair_mutex' = w
    /\ threads' = [threads EXCEPT ![w].pc = "set"]
    /\ UNCHANGED <<space_vars, body, last_call, pairs, res, midphase_calls>>

PairSet(w) ==
    /\ w \in DOMAIN threads /\ threads[w].pc = "set"
    /\ pairs' = pairs \cup {IdPair(threads[w].a, threads[w].b)}
    /\ threads' = [threads EXCEPT ![w].pc = "unlock"]
    /\ UNCHANGED <<space_vars, body, last_call, res, pair_mutex, midphase_calls>>

MutexUnlock(w) ==
    /\ w \in DOMAIN threads /\ threads[w].pc = "unlock"
    /\ pair_mutex' = Unlocked
    /\ threads' = [threads EXCEPT ![w].pc = "midphase"]
    /\ UNCHANGED <<space_vars, body, last_call, pairs, res, midphase_calls>>

\* the lookup in space->res and nv_midphase
Midphase(w) ==
    /\ w \in DOMAIN threads /\ threads[w].pc = "midphase"
    /\ LET a == threads[w].a
           b == threads[w].b
           after == nv_midphase([res |-> res, created |-> FALSE], a, b,
                                <<a, b>> \in DOMAIN res)
       IN /\ res' = after.res
          /\ midphase_calls' = Append(midphase_calls,
                                       [by |-> w, a |-> a, b |-> b,
                                        created |-> after.created])
    /\ threads' = [threads EXCEPT ![w].pc = "visit", ![w].a = 0, ![w].b = 0]
    /\ UNCHANGED <<space_vars, body, last_call, pairs, pair_mutex>>

WorkerReturn(w) ==
    /\ w \in DOMAIN threads /\ threads[w].pc = "visit"
    /\ threads[w].todo = <<>>
    /\ threads' = [threads EXCEPT ![w].pc = "done"]
    /\ UNCHANGED <<space_vars, body, last_call, pairs, res, pair_mutex, midphase_calls>>

\* Thread_join_multiple, the frees and the loop over space->res
SHGJoin ==
    /\ threads # <<>>
    /\ \A w \in (1..NumWorkers) : threads[w].pc = "done"
    /\ res' = FastBodiesLoop([res |-> res, created |-> FALSE],
                              SortedKeys(DOMAIN res)).res
    /\ midphase_calls' = <<>>
    /\ threads' = <<>>
    /\ last_call' = Call("nv_BroadPhase_SHG_multithreaded", 0, 1)
    /\ UNCHANGED <<space_vars, body, pairs, pair_mutex>>

(***************************************************************************)
(* The scene.  Shape b belongs to body b, the last body owns one more      *)
(* shape; the bodies are built before any of them is added to the space.   *)
(*                                                                         *)
(*     body 1            at <<0, 0>>                                       *)
(*     bodies 2..N-1     at <<1, -1>>, overlapping body 1                  *)
(*     body N            at <<3, 0>>, shapes at offsets <<-2,0>>, <<2,0>>: *)
(*                       the left shape overlaps body 1, the right not     *)
(***************************************************************************)
SceneShapes ==
    [s \in 1..(NumBodies + 1) |->
        [id |-> s - 1, type |-> POLYGON, num_vertices |-> 4,
         vertices |-> [i \in 1..4 |->
            nvVector2_add(BoxVertices[i],
                IF s = NumBodies THEN <<0 - 2, 0>>
                ELSE IF s = NumBodies + 1 THEN <<2, 0>>
                ELSE nvVector2_zero)]]]

SceneShapesOf(b) == IF b = NumBodies THEN <<b, b + 1>> ELSE <<b>>

\* type, linear velocity and angular velocity a body may be created with
SceneKinds(b) ==
    IF b = 1
    THEN {<<STATIC, <<0, 1>>, 1>>}
    ELSE IF b = NumBodies
    THEN {<<DYNAMIC, <<1, 0>>, 0>>}
    ELSE {<<DYNAMIC, <<0, 0 - 1>>, 0>>}

ScenePosition(b) ==
    IF b = 1 THEN <<0, 0>> ELSE IF b = NumBodies THEN <<3, 0>> ELSE <<1, 0 - 1>>

\* nvRigidBody_new followed by nvRigidBody_add_shape for each shape
RECURSIVE AddShapes(_, _)
AddShapes(b, shape_seq) ==
    IF Len(shape_seq) = 0 THEN b
    ELSE AddShapes(nvRigidBody_add_shape(b, Head(shape_seq)), Tail(shape_seq))

SceneBody(b, kind) ==
    AddShapes(nvRigidBody_new(kind[1], ScenePosition(b), 0, kind[2], kind[3]),
              SceneShapesOf(b))

\* space->kill_bounds is {-1e4, -1e4, 1e4, 1e4}; on the grid of the model it
\* is the box that the last body leaves with its first move
KillBound == MaxCoord + 2

\* the multithreaded broad-phase of nv_Space is not running
NoBroadPhaseSHG ==
    /\ pairs = {}
    /\ res = EmptyMap
    /\ pair_mutex = Unlocked
    /\ threads = <<>>
    /\ midphase_calls = <<>>

\* no gravity, or a gravity that pulls the last body onto body 1
Gravities == {<<0, 0>>, <<0 - 1, 0>>}

NewSettings ==
    [velocity_iterations |-> 8, position_iterations |-> 4, substeps |-> 1,
     warmstarting |-> TRUE]

NewConstraint(c) ==
    [a |-> ((c - 1) % NumBodies) + 1, b |-> (c % NumBodies) + 1,
     normal |-> nvVector2_zero, invmass |-> 0, impulse |-> 0]

\* nvSpace_new, then nvSpace_set_gravity
NewSpace ==
    /\ bodies = <<>>
    /\ constraints = <<>>
    /\ gravity \in Gravities
    /\ settings = NewSettings
    /\ broadphase_algorithm = BRUTE_FORCE
    /\ broadphase_pairs = <<>>
    /\ contacts = EmptyMap
    /\ id_counter = 0
    /\ listener = NULL
    /\ kill_bounds = [min_x |-> 0 - KillBound, min_y |-> 0 - KillBound,
                      max_x |-> KillBound, max_y |-> KillBound]
    /\ use_kill_bounds = TRUE
    /\ freed = {}
    /\ error = ""
    /\ step = IdleStep
    /\ solver_log = <<>>
    /\ events = <<>>
    /\ last_call = Call("nvSpace_new", 0, 0)
    /\ NoBroadPhaseSHG

Init ==
    /\ NewSpace
    /\ shapes = SceneShapes
    /\ shape_id_counter = NumBodies + 1
    /\ \E kinds \in [Bodies -> UNION {SceneKinds(b) : b \in Bodies}] :
        /\ \A b \in Bodies : kinds[b] \in SceneKinds(b)
        /\ body = [b \in Bodies |-> SceneBody(b, kinds[b])]
    /\ cons = [c \in Constraints |-> NewConstraint(c)]

Next ==
    \/ \E b \in Bodies : AddBody(b)
    \/ \E b \in Bodies : RemoveBody(b)
    \/ \E l \in Listeners : SetContactListener(l)
    \/ \E n \in 0..MaxSubsteps : SetSubsteps(n)
    \/ \E dt \in 0..(MaxDt * MaxSubsteps) : StepCall(dt)
    \/ IntegrateAccelerations
    \/ BroadphaseSwitch
    \/ BroadphaseInner
    \/ NarrowPhase
    \/ PresolveConstraints
    \/ SolveConstraints
    \/ PresolveContacts
    \/ SolveContactVelocities
    \/ IntegrateVelocities
    \/ StepReturn

Spec == Init /\ [][Next]_vars

(***************************************************************************)
(* The same scene with constraints and without a contact listener          *)
(***************************************************************************)
NextConstraints ==
    \/ \E b \in Bodies : AddBody(b)
    \/ \E c \in Constraints : AddConstraint(c)
    \/ \E c \in Constraints : RemoveConstraint(c)
    \/ \E dt \in 0..MaxDt : StepCall(dt)
    \/ IntegrateAccelerations
    \/ BroadphaseSwitch
    \/ BroadphaseInner
    \/ NarrowPhase
    \/ PresolveConstraints
    \/ SolveConstraints
    \/ PresolveContacts
    \/ SolveContactVelocities
    \/ IntegrateVelocities
    \/ StepReturn

SpecConstraints == Init /\ [][NextConstraints]_vars

(***************************************************************************)
(* The shape constructors, called after the scene is built.  NV_NEW is     *)
(* malloc: it returns NULL or the address of a new shape.                  *)
(***************************************************************************)
MaxNewShapes == 2       \* shapes allocated after the scene
MaxVertices == NV_POLYGON_MAX_VERTICES + 2   \* vertex counts 0..MaxVertices
MaxPoints == 4          \* convex hulls of 0..MaxPoints points

NV_NEW == {NULL, "shape"}

\* n points of a convex curve
Points(n) == [i \in 1..n |-> <<i, i * i>>]

\* the constructor returned r
ShapeCall(op, arg, r) ==
    /\ Idle
    /\ shape_id_counter < NumBodies + 1 + MaxNewShapes
    /\ shape_id_counter' = r.id_counter
    /\ shapes' = r.heap
    /\ error' = r.error
    /\ last_call' = Call(op, arg, IF r.shape = NULL THEN 1 ELSE 0)
    /\ UNCHANGED <<kill_bounds, use_kill_bounds, freed, solver_log, shg_vars,
                   body, cons, bodies, constraints, broadphase_pairs, contacts,
                   id_counter, gravity, settings, listener, broadphase_algorithm,
                   step, events>>

CircleShapeNew(shape) ==
    ShapeCall("nvCircleShape_new", 1, nvCircleShape_new(shape, nvVector2_zero, 1))

PolygonShapeNew(shape, n) ==
    ShapeCall("nvPolygonShape_new", n,
              nvPolygonShape_new(shape, Points(n), n, nvVector2_zero))

RectShapeNew(shape) ==
    ShapeCall("nvRectShape_new", 4, nvRectShape_new(shape, 2, 2, nvVector2_zero))

NGonShapeNew(shape, n) ==
    ShapeCall("nvNGonShape_new", n, nvNGonShape_new(shape, n, 2, nvVector2_zero))

ConvexHullShapeNew(n) ==
    ShapeCall("nvConvexHullShape_new", n,
              nvConvexHullShape_new(Points(n), nvVector2_zero))

\* the routine the narrow-phase runs on two shapes that were constructed
NarrowPhaseOn(shape_a, shape_b) ==
    /\ Idle
    /\ shape_a \in DOMAIN shapes
    /\ shape_b \in DOMAIN shapes
    /\ last_call' = Call("nv_narrow_phase", <<shape_a, shape_b>>,
                         NarrowPhaseRoutine(shapes[shape_a], shapes[shape_b]))
    /\ UNCHANGED <<kill_bounds, use_kill_bounds, freed, error, solver_log, shg_vars,
                   shape_id_counter, shapes, body, cons, bodies, constraints,
                   broadphase_pairs, contacts, id_counter, gravity, settings,
                   listener, broadphase_algorithm, step, events>>

NextDispatch ==
    \/ \E shape \in NV_NEW : CircleShapeNew(shape)
    \/ \E shape \in NV_NEW : RectShapeNew(shape)
    \/ \E shape_a, shape_b \in 1..(NumBodies + 1 + MaxNewShapes) :
          NarrowPhaseOn(shape_a, shape_b)

SpecDispatch == Init /\ [][NextDispatch]_vars

NextShapes ==
    \/ \E shape \in NV_NEW : CircleShapeNew(shape)
    \/ \E shape \in NV_NEW, n \in 0..MaxVertices : PolygonShapeNew(shape, n)
    \/ \E shape \in NV_NEW : RectShapeNew(shape)
    \/ \E shape \in NV_NEW, n \in 0..MaxVertices : NGonShapeNew(shape, n)
    \/ \E n \in 0..MaxPoints : ConvexHullShapeNew(n)

SpecShapes == Init /\ [][NextShapes]_vars

(***************************************************************************)
(* The same scene with nvSpace_set_broadphase                              *)
(***************************************************************************)
NextBroadphase ==
    \/ \E b \in Bodies : AddBody(b)
    \/ \E alg \in {BRUTE_FORCE, SHG, BVH} : SetBroadphase(alg)
    \/ \E dt \in 0..MaxDt : StepCall(dt)
    \/ IntegrateAccelerations
    \/ BroadphaseSwitch
    \/ BroadphaseInner
    \/ NarrowPhase
    \/ PresolveConstraints
    \/ SolveConstraints
    \/ PresolveContacts
    \/ SolveContactVelocities
    \/ IntegrateVelocities
    \/ StepReturn

SpecBroadphase == Init /\ [][NextBroadphase]_vars

(***************************************************************************)
(* The same scene with settings.warmstarting switched on and off, the last *)
(* body moved and the collision groups changed between the steps           *)
(***************************************************************************)
NextWarmstart ==
    \/ \E b \in Bodies : AddBody(b)
    \/ \E w \in BOOLEAN : SetWarmstarting(w)
    \/ \E x \in {1, 3} : BodySetPosition(NumBodies, <<x, 0>>)
    \/ \E b \in Bodies, group \in {0, 1} : SetCollisionGroup(b, group)
    \/ \E dt \in 0..MaxDt : StepCall(dt)
    \/ IntegrateAccelerations
    \/ BroadphaseSwitch
    \/ BroadphaseInner
    \/ NarrowPhase
    \/ PresolveConstraints
    \/ SolveConstraints
    \/ PresolveContacts
    \/ SolveContactVelocities
    \/ IntegrateVelocities
    \/ StepReturn

SpecWarmstart == Init /\ [][NextWarmstart]_vars

(***************************************************************************)
(* The same scene with nvSpace_clear                                       *)
(***************************************************************************)
NextClear ==
    \/ \E b \in Bodies : AddBody(b)
    \/ \E b \in Bodies : RemoveBody(b)
    \/ \E c \in Constraints : AddConstraint(c)
    \/ \E free_all \in BOOLEAN : ClearSpace(free_all)
    \/ \E dt \in 0..MaxDt : StepCall(dt)
    \/ IntegrateAccelerations
    \/ BroadphaseSwitch
    \/ BroadphaseInner
    \/ NarrowPhase
    \/ PresolveConstraints
    \/ SolveConstraints
    \/ PresolveContacts
    \/ SolveContactVelocities
    \/ IntegrateVelocities
    \/ StepReturn

SpecClear == Init /\ [][NextClear]_vars

(***************************************************************************)
(* The same scene with the collision filters of the first and of the last  *)
(* body set before the bodies are added (nvRigidBody_set_collision_group,  *)
(* _category, _mask, nvRigidBody_enable/disable_collisions), at rest and   *)
(* without gravity.                                                        *)
(***************************************************************************)
Filters ==
    [type : {STATIC, DYNAMIC}, collision_enabled : BOOLEAN,
     collision_group : {0, 1, 2},
     bits : {<<1, 1>>, <<1, 2>>}]                \* <<category, mask>>

DefaultFilter ==
    [type |-> DYNAMIC, collision_enabled |-> TRUE, collision_group |-> 0,
     bits |-> <<3, 3>>]

FilteredBody(b, f) ==
    [SceneBody(b, <<f.type, nvVector2_zero, 0>>) EXCEPT
        !.collision_enabled = f.collision_enabled,
        !.collision_group = f.collision_group,
        !.collision_category = f.bits[1],
        !.collision_mask = f.bits[2]]

InitFilter ==
    /\ NewSpace
    /\ gravity = nvVector2_zero
    /\ shapes = SceneShapes
    /\ shape_id_counter = NumBodies + 1
    /\ \E first \in Filters, last \in Filters :
        body = [b \in Bodies |->
                    FilteredBody(b, IF b = 1 THEN first
                                    ELSE IF b = NumBodies THEN last
                                    ELSE DefaultFilter)]
    /\ cons = [c \in Constraints |-> NewConstraint(c)]

NextFilter ==
    \/ \E b \in Bodies : AddBody(b)
    \/ \E dt \in 1..MaxDt : StepCall(dt)
    \/ IntegrateAccelerations
    \/ BroadphaseSwitch
    \/ BroadphaseInner
    \/ NarrowPhase
    \/ PresolveConstraints
    \/ SolveConstraints
    \/ PresolveContacts
    \/ SolveContactVelocities
    \/ IntegrateVelocities
    \/ StepReturn

SpecFilter == InitFilter /\ [][NextFilter]_vars

(***************************************************************************)
(* The multithreaded broad-phase on a row of bodies                        *)
(***************************************************************************)

InitSHG ==
    /\ NewSpace
    /\ gravity = nvVector2_zero
    /\ shapes = SceneShapes
    /\ shape_id_counter = NumBodies + 1
    /\ cons = [c \in Constraints |-> NewConstraint(c)]
    /\ \E v \in {0, threshold + 1} :
        body = [b \in Bodies |->
                  nv_Body_new(b, DYNAMIC, <<b, 1>>, IF b = 1 THEN <<v, 0>> ELSE <<0, 0>>)]

NextSHG ==
    \/ \E b \in Bodies : SpaceAdd(b)
    \/ \E b \in Bodies, x \in {1, CellSize, CellSize + 1, 2 * CellSize, 2 * CellSize + 1} :
          SetPosition(b, x)
    \/ SHGMultithreaded
    \/ \E w \in (1..NumWorkers) : Visit(w)
    \/ \E w \in (1..NumWorkers) : MutexLock(w)
    \/ \E w \in (1..NumWorkers) : PairSet(w)
    \/ \E w \in (1..NumWorkers) : MutexUnlock(w)
    \/ \E w \in (1..NumWorkers) : Midphase(w)
    \/ \E w \in (1..NumWorkers) : WorkerReturn(w)
    \/ SHGJoin

SpecSHG == InitSHG /\ [][NextSHG]_vars

(***************************************************************************)
(* Properties                                                              *)
(***************************************************************************)

C2_AddRemoveAddAgain ==
    [][\A b \in Bodies :
          /\ (last_call = Call("add_body", b, 0) /\ RemoveBody(b))
                => bodies = Append(bodies', b)
          /\ (last_call = Call("remove_body", b, 0) /\ b \notin Range(bodies)
                /\ AddBody(b))
                => (last_call'.status = 0 /\ body'[b].id # body[b].id)]_vars

\* C3: a step with dt = 0 or with settings.substeps = 0 changes no body, no
\* constraint, neither the contact map nor broadphase_pairs, and invokes no
\* listener callback.
C3_DegenerateStepIsNoOp ==
    [][\A dt \in 0..(MaxDt * MaxSubsteps) :
          (StepCall(dt) /\ (dt = 0 \/ settings.substeps = 0)) =>
              UNCHANGED <<body, cons, bodies, constraints, contacts,
                          broadphase_pairs, events, step>>]_vars

\* step(dt) with dt > 0 has returned from a space with zero substeps that
\* holds contacts
C3_ZeroSubstepsStepSeen ==
    /\ step.pc = "idle"
    /\ last_call.op = "step"
    /\ last_call.arg > 0
    /\ settings.substeps = 0
    /\ Len(bodies) = NumBodies
    /\ DOMAIN contacts # {}

\* C4: a body on which remove is called while a substep is in progress stays
\* in bodies during the remaining phases of that substep.
C4_RemovalIsDeferred ==
    step.pc \notin {"idle", "end"} => step.removed \subseteq Range(bodies)

\* C5: when a step has run, every STATIC body of the space has the position,
\* angle, linear velocity and angular velocity it had when the step began.
C5_StaticBodiesKeepState ==
    step.pc = "end" =>
        \A b \in Range(bodies) :
            body[b].type = STATIC => Snapshot[b] = step.pre[b]

\* a step has run under gravity on a moving STATIC body that carries a
\* contact with a non-zero impulse
C5_StaticBodyUnderLoad ==
    /\ step.pc = "end"
    /\ gravity # nvVector2_zero
    /\ \E key \in DOMAIN contacts :
        /\ body[contacts[key].body_a].type = STATIC
        /\ contacts[key].body_a \in Range(bodies)
        /\ body[contacts[key].body_a].linear_velocity # nvVector2_zero
        /\ body[contacts[key].body_a].angular_velocity # 0
        /\ \E c \in 1..Len(contacts[key].contacts) :
              contacts[key].contacts[c].solver_info.normal_impulse > 0

C7_InsertOnlyPenetrating ==
    [][NarrowPhase =>
          /\ \A key \in DOMAIN contacts' \ DOMAIN contacts :
                \E c \in 1..Len(contacts'[key].contacts) :
                    contacts'[key].contacts[c].separation < 0
          /\ \A n \in 1..Len(broadphase_pairs) :
                LET a == broadphase_pairs[n].a
                    b == broadphase_pairs[n].b
                IN \A k \in 1..Len(ShapePairs(a, b)) :
                    LET sp == ShapePairs(a, b)[k]
                        m == nv_collide_polygon_x_polygon(
                                shapes[sp[1]], Xform(body[a]),
                                shapes[sp[2]], Xform(body[b]))
                    IN (/\ PcpKey(sp[1], sp[2]) \notin DOMAIN contacts
                        /\ \A c \in 1..Len(m.contacts) : m.contacts[c].separation >= 0)
                       => PcpKey(sp[1], sp[2]) \notin DOMAIN contacts']_vars

\* the narrow-phase has run on a pair of bodies of which one shape pair
\* penetrates and got a fresh entry, and another does not and got none
C7_OnePairInsertedOneNot ==
    /\ step.pc = "presolve_constraints"
    /\ \E n \in 1..Len(broadphase_pairs) :
        LET sp == ShapePairs(broadphase_pairs[n].a, broadphase_pairs[n].b) IN
        \E k, l \in 1..Len(sp) :
            /\ PcpKey(sp[k][1], sp[k][2]) \in DOMAIN contacts
            /\ \A c \in 1..Len(contacts[PcpKey(sp[k][1], sp[k][2])].contacts) :
                  ~contacts[PcpKey(sp[k][1], sp[k][2])].contacts[c].is_persisted
            /\ PcpKey(sp[l][1], sp[l][2]) \notin DOMAIN contacts

C9_NarrowPhaseCallbacks ==
    [][(NarrowPhase /\ listener \in {"observer", "remover"}) =>
          /\ \A key \in DOMAIN contacts' \ DOMAIN contacts :
                \E n \in 1..Len(events') :
                    /\ events'[n].cb = "on_contact_began"
                    /\ PcpKey(events'[n].shape_a, events'[n].shape_b) = key
          /\ \A key \in DOMAIN contacts :
                (\E p \in 1..Len(broadphase_pairs) :
                    \E k \in 1..Len(ShapePairs(broadphase_pairs[p].a, broadphase_pairs[p].b)) :
                        LET sp == ShapePairs(broadphase_pairs[p].a, broadphase_pairs[p].b)[k]
                        IN PcpKey(sp[1], sp[2]) = key)
                => \E n \in 1..Len(events') :
                    /\ events'[n].cb = "on_contact_persisted"
                    /\ PcpKey(events'[n].shape_a, events'[n].shape_b) = key]_vars

\* C10: every pair of broadphase_pairs has a.id < b.id, both bodies with
\* collisions enabled, not both STATIC, not the same non-zero collision
\* group, and masks that accept the other's category in both directions; no
\* body with collision mask 0 is in a pair, and no PCP joins two bodies of
\* the same non-zero group.
C10_PairsPassTheFilters ==
    /\ \A n \in 1..Len(broadphase_pairs) :
        LET a == body[broadphase_pairs[n].a]
            b == body[broadphase_pairs[n].b]
        IN /\ a.id < b.id
           /\ a.collision_enabled /\ b.collision_enabled
           /\ ~(a.type = STATIC /\ b.type = STATIC)
           /\ ~(a.collision_group = b.collision_group /\ a.collision_group # 0)
           /\ BitAnd(a.collision_mask, b.collision_category) # 0
           /\ BitAnd(b.collision_mask, a.collision_category) # 0
           /\ a.collision_mask # 0 /\ b.collision_mask # 0
    /\ \A key \in DOMAIN contacts :
        LET a == body[contacts[key].body_a]
            b == body[contacts[key].body_b]
        IN ~(a.collision_group = b.collision_group /\ a.collision_group # 0)

\* the broad-phase has recorded a pair of a STATIC and a DYNAMIC body of two
\* different non-zero groups
C10_FilteredPairRecorded ==
    /\ step.pc = "narrowphase"
    /\ \E n \in 1..Len(broadphase_pairs) :
        LET a == body[broadphase_pairs[n].a]
            b == body[broadphase_pairs[n].b]
        IN /\ a.collision_group # 0 /\ b.collision_group # 0
           /\ a.type = STATIC /\ b.type = DYNAMIC

\* C11: with use_kill_bounds set, when nvSpace_step has integrated the
\* velocities of its last substep, no body whose AABB is not contained in
\* kill_bounds is left in space->bodies.
C11_OutOfBoundsBodiesRemoved ==
    (step.pc = "end" /\ use_kill_bounds) =>
        \A i \in 1..Len(bodies) :
            LET box == nvRigidBody_get_aabb(bodies[i]) IN
            /\ kill_bounds.min_x <= box.min_x /\ box.max_x <= kill_bounds.max_x
            /\ kill_bounds.min_y <= box.min_y /\ box.max_y <= kill_bounds.max_y

\* the positions of solver_log that hold a call of the function `call`
LogIndexes(call) == {n \in 1..Len(solver_log) : solver_log[n].call = call}

C14_IdCounterMonotonic ==
    [][/\ id_counter' >= id_counter
       /\ \A b \in Bodies :
            (body[b].space # SELF /\ body'[b].space = SELF) =>
                /\ body'[b].id = id_counter
                /\ id_counter' = id_counter + 1
                /\ \A o \in Bodies : body[o].space = SELF => body[o].id < body'[b].id
       /\ \A i, j \in 1..Len(bodies') :
            i # j => body'[bodies'[i]].id # body'[bodies'[j]].id]_vars

\* a body was added after a clear that freed the bodies added before it
C14_AddedAfterClear ==
    /\ \E b \in Bodies : <<"body", b>> \in freed
    /\ \E i \in 1..Len(bodies) : body[bodies[i]].id > 0
    /\ last_call.op = "add_body" /\ last_call.status = 0

\* C15: nvSpace_clear returns 0 and leaves bodies, constraints,
\* broadphase_pairs and contacts empty for either value of free_all, and a
\* step of a space with these four collections empty changes no body and no
\* constraint, creates no pair and no contact and invokes no callback.
C15_ClearEmptiesTheSpace ==
    [][/\ (\E free_all \in BOOLEAN : ClearSpace(free_all)) =>
            /\ last_call'.status = 0
            /\ bodies' = <<>> /\ constraints' = <<>>
            /\ broadphase_pairs' = <<>> /\ DOMAIN contacts' = {}
       /\ (step.pc # "idle" /\ bodies = <<>> /\ constraints = <<>>
           /\ broadphase_pairs = <<>> /\ DOMAIN contacts = {}) =>
            /\ body' = body /\ cons' = cons
            /\ DOMAIN contacts' = {} /\ broadphase_pairs' = <<>>
            /\ events' = <<>>]_vars

\* a step has run over a space whose bodies were cleared and freed
C15_SteppedAfterClear ==
    /\ step.pc = "end"
    /\ bodies = <<>>
    /\ \E b \in Bodies : <<"body", b>> \in freed

\* the messages of the errors about the number of vertices
InvalidShape ==
    {"Exceeds maximum number of vertices per convex polygon shape.",
     "Cannot create a polygon shape with fewer than 3 vertices.",
     "Too many polygon vertices (check NV_POLYGON_MAX_VERTICES)."}

C17_NullMeansErrorSet ==
    [][(/\ \/ \E shape \in NV_NEW : CircleShapeNew(shape)
           \/ \E shape \in NV_NEW, n \in 0..MaxVertices : PolygonShapeNew(shape, n)
           \/ \E shape \in NV_NEW : RectShapeNew(shape)
           \/ \E shape \in NV_NEW, n \in 0..MaxVertices : NGonShapeNew(shape, n)
           \/ \E n \in 0..MaxPoints : ConvexHullShapeNew(n)
        /\ error = ""
        /\ last_call'.status = 1)
            => error' # ""]_vars

\* C18: whichever broad-phase algorithm is selected, when the broad-phase of
\* a substep is over broadphase_pairs holds the pairs of bodies that pass
\* the filters and have overlapping AABBs, and no others, and no PCP is left
\* for a pair that passes the filters and whose AABBs are apart.
C18_EveryAlgorithmFindsThePairs ==
    step.pc = "narrowphase" =>
        \A i, j \in 1..Len(bodies) :
            LET a == bodies[i]
                b == bodies[j]
                recorded == \E n \in 1..Len(broadphase_pairs) :
                                broadphase_pairs[n] = [a |-> a, b |-> b]
            IN IF nvBroadPhase_early_out(body[a], body[b]) THEN ~recorded
               ELSE IF OneAABB(a, b) THEN recorded
               ELSE /\ ~recorded
                    /\ \A n \in 1..Len(ShapePairs(a, b)) :
                        PcpKey(ShapePairs(a, b)[n][1], ShapePairs(a, b)[n][2])
                            \notin DOMAIN contacts

\* C19: in the multithreaded spatial hash grid broad-phase a worker reads
\* space->pairs (the lookup of a pair that passed the early-out) and writes
\* it (the insertion of the pair) only while it holds pair_mutex.
C19_PairMapUnderMutex ==
    [][\A w \in DOMAIN threads :
          LET lookup == /\ threads[w].pc = "visit"
                        /\ threads[w].todo # <<>>
                        /\ ~nv_BroadPhase_early_out(Head(threads[w].todo)[1],
                                                    Head(threads[w].todo)[2])
              insertion == threads[w].pc = "set"
          IN (w \in DOMAIN threads' /\ threads'[w] # threads[w] /\
              (lookup \/ insertion)) => pair_mutex = w]_vars

\* C20: in the multithreaded spatial hash grid broad-phase, whatever the
\* interleaving of the four workers, the workers hand each unordered pair
\* of bodies to nv_midphase at most once in one broad-phase, and at most
\* one resolution is created for it.
C20_PairHandedOnce ==
    \A m, n \in 1..Len(midphase_calls) :
        LET c == midphase_calls[m]
            d == midphase_calls[n]
        IN m # n => {c.a, c.b} # {d.a, d.b}

\* C21: nvSpace_add_constraint rejects a constraint that is already in the
\* space, so space->constraints never holds the same constraint twice and no
\* constraint is presolved, warm-started or solved twice in one pass.
C21_NoDuplicateConstraints ==
    /\ \A i, j \in 1..Len(constraints) : i # j => constraints[i] # constraints[j]
    /\ \A m, n \in 1..Len(solver_log) :
          (m # n /\ solver_log[m].call \in {"nvConstraint_presolve",
                                            "nvConstraint_warmstart",
                                            "nvConstraint_solve"})
              => solver_log[m] # solver_log[n]

\* C22: when the narrow-phase finds a PCP already stored for a shape pair it
\* stores the newly computed manifold in its place; a new contact whose id
\* is the id of an old contact is persisted and, with settings.warmstarting
\* on, has that old contact's solver_info; with warmstarting off, or when no
\* old contact has its id, it carries no solver_info of the old PCP.
C22_MatchedContactsKeepSolverInfo ==
    [][(step.pc = "narrowphase" /\ step'.pc # "narrowphase") =>
          \A key \in DOMAIN contacts :
             LET old_pcp == contacts[key]
                 pcp == contacts'[key]
                 fresh == nv_collide_polygon_x_polygon(
                              shapes[old_pcp.shape_a], Xform(body[old_pcp.body_a]),
                              shapes[old_pcp.shape_b], Xform(body[old_pcp.body_b]))
                 visited == \E n \in 1..Len(broadphase_pairs) :
                               /\ broadphase_pairs[n].a = old_pcp.body_a
                               /\ broadphase_pairs[n].b = old_pcp.body_b
             IN visited =>
                /\ key \in DOMAIN contacts'
                /\ pcp.normal = fresh.normal
                /\ Len(pcp.contacts) = Len(fresh.contacts)
                /\ \A c \in 1..Len(pcp.contacts) :
                     LET olds == {o \in 1..Len(old_pcp.contacts) :
                                     old_pcp.contacts[o].id = pcp.contacts[c].id}
                     IN /\ pcp.contacts[c].id = fresh.contacts[c].id
                        /\ pcp.contacts[c].is_persisted = (olds # {})
                        /\ IF olds # {} /\ settings.warmstarting
                           THEN \A o \in olds : pcp.contacts[c].solver_info =
                                                  old_pcp.contacts[o].solver_info
                           ELSE pcp.contacts[c].solver_info = fresh.contacts[c].solver_info
      ]_vars

C22_PersistedContactWarmstarted ==
    /\ step.pc = "presolve_constraints"
    /\ settings.warmstarting
    /\ \E key \in DOMAIN contacts : \E c \in 1..Len(contacts[key].contacts) :
          /\ contacts[key].contacts[c].is_persisted
          /\ contacts[key].contacts[c].solver_info.normal_mass # 0

\* C23: the narrow-phase picks the manifold routine of a shape pair by the
\* types of the two shapes: two circles go to the circle-circle routine, a
\* circle and a polygon (in either order) to the polygon-circle routine, and
\* only two polygons to the polygon-polygon routine.
C23_RoutineChosenByShapeTypes ==
    last_call.op = "nv_narrow_phase" =>
        LET type_a == shapes[last_call.arg[1]].type
            type_b == shapes[last_call.arg[2]].type
        IN last_call.status =
              IF type_a = CIRCLE /\ type_b = CIRCLE THEN "nv_collide_circle_x_circle"
              ELSE IF type_a = POLYGON /\ type_b = POLYGON
              THEN "nv_collide_polygon_x_polygon"
              ELSE "nv_collide_polygon_x_circle"

\* C24: once a body has been removed from the space, no PCP of the contact
\* map and no entry of broadphase_pairs refers to it, and no step presolves,
\* warm-starts or solves a contact of a body that is not in the space.
C24_NoContactOfRemovedBody ==
    /\ \A key \in DOMAIN contacts :
          {contacts[key].body_a, contacts[key].body_b} \subseteq Range(bodies)
    /\ \A n \in 1..Len(broadphase_pairs) :
          {broadphase_pairs[n].a, broadphase_pairs[n].b} \subseteq Range(bodies)
    /\ \A n \in 1..Len(solver_log) :
          solver_log[n].call \in {"nv_contact_presolve", "nv_contact_warmstart",
                                  "nv_contact_solve_velocity"}
              => \A key \in {solver_log[n].arg} \cap DOMAIN contacts :
                    {contacts[key].body_a, contacts[key].body_b} \subseteq Range(bodies)

\* C25: when a step has finished, every PCP of the contact map joins two
\* bodies that pass the broad-phase filters: a PCP whose bodies were given the
\* same non-zero collision group (or a disabled collision, or masks that
\* reject each other) after it was created is gone after the next step.
C25_ContactsPassTheFilters ==
    [][(step.pc # "idle" /\ step'.pc = "idle") =>
          \A key \in DOMAIN contacts' :
             ~nvBroadPhase_early_out(body'[contacts'[key].body_a],
                                     body'[contacts'[key].body_b])]_vars

\* C26: after any sequence of nvSpace_add_body, nvSpace_remove_body and
\* nvSpace_clear calls, body->space is the space exactly when the body is in
\* the bodies of the space.
C26_SpaceFieldMatchesMembership ==
    \A b \in Bodies :
        Alive("body", b) => (body[b].space = SELF <=> b \in Range(bodies))

C29_EveryBodyInOneArray ==
    threads # <<>> =>
        \A b \in Range(bodies) :
            Cardinality({w \in 1..NumWorkers : b \in Range(Partition(w))}) = 1

\* C30: a call of nvPolygonShape_new that fails because of the number of
\* vertices (fewer than 3 or more than NV_POLYGON_MAX_VERTICES) leaves the
\* shape id counter and the shapes as they were, so the ids of the shapes
\* that were constructed are consecutive in the order of their creation.
C30_FailedPolygonKeepsIdCounter ==
    [][(\E n \in (0..MaxVertices) \ (3..NV_POLYGON_MAX_VERTICES) :
            PolygonShapeNew("shape", n))
         => /\ shape_id_counter' = shape_id_counter
            /\ shapes' = shapes
            /\ \A s \in 2..Len(shapes') : shapes'[s].id = shapes'[s - 1].id + 1]_vars

====
